---- MODULE Spec2Model ----
(***************************************************************************)
(* Verification model of the weather-forecast accuracy tracker.            *)
(*                                                                         *)
(* Twelve specifications share one set of variables:                       *)
(*   Spec         the server update cycle (runUpdateCycle): single-flight  *)
(*                guard, reconcile, model fetch, verification and the      *)
(*                rollup / cache tasks it starts;                          *)
(*   SpecLive     the same cycle with a failure at any awaited step and the*)
(*                client's cycle (runFullUpdate), under weak fairness of   *)
(*                the awaited steps;                                       *)
(*   SpecRetry    fetchWithRetry;                                          *)
(*   SpecFetch    fetchAllModels: batches of per-model fallback chains;    *)
(*   SpecObs      fetchMETARHistory of the server and of the client over   *)
(*                consecutive hours;                                       *)
(*   SpecStore    storeForecast and generateSyntheticModels over           *)
(*                consecutive fetches;                                     *)
(*   SpecVerify   runVerification of the server (twice) and of the client  *)
(*                over forecasts and observations drawn from small pools;  *)
(*   SpecMetar    the fallback layers of fetchMETARHistory and the         *)
(*                observations built from the accepted reports;            *)
(*   SpecStats    aggregateDailyStats, getLeaderboard,                     *)
(*                refreshLeaderboardCache and POST /api/reset of the       *)
(*                server, and the composite scores of the client           *)
(*                (weatherService.ts and db.ts), over verification tables  *)
(*                drawn from a catalogue;                                  *)
(*   SpecTail     the rollup and cache tasks an update cycle starts        *)
(*                without awaiting them, one setImmediate step at a time;  *)
(*   SpecBackfill backfillStats;                                           *)
(*   SpecTab      the loads of the browser component TabContent.           *)
(*                                                                         *)
(* Time is counted in minutes: the source's 3600000 ms is HOUR = 60.        *)
(***************************************************************************)
EXTENDS Integers, Sequences, FiniteSets, TLC

\* ------------------------------------------------------------------ bounds
\* concurrent callers of runUpdateCycle (the cron tick and manual triggers)
MaxCalls == 2
\* loop iterations of earlier rollup / cache tasks that may still be pending
\* when a cycle starts its own rollup / cache tasks
MaxBacklog == 0

\* calls of getLeaderboard and refreshLeaderboardCache in one behaviour
MaxLeaderboardCalls == 2

\* ------------------------------------------------------- program constants
HOUR == 60
NULL == -9999
NumMetarLayers == 5
MIN_METAR_RECORDS == 20
LOOKBACK_HOURS == 48
NumBuckets == 6
NumCacheVariables == 19
\* the wall clock at start: 100 hours and 20 minutes after the epoch
Now0 == 6020

Calls == 1..MaxCalls

VARIABLES
    now,            \* Date.now(), in minutes
    isUpdating,     \* index.ts: let isUpdating
    pc,             \* position of each runUpdateCycle caller
    metarLayer,     \* fetchMETARHistory: index of the layer being awaited
    rawMetars,      \* fetchMETARHistory: let rawMetars
    tried,          \* latest fetchMETARHistory: was layer i's result accepted
    done,           \* major steps finished by the cycle started last
    outcome,        \* how the cycle started last ended
    skipped,        \* a trigger was skipped since the last cycle start
    observations,   \* table observations (server)
    immediateQueue, \* pending setImmediate continuations of rollup / cache tasks
    cycleStart,     \* the hours with a row in observations when the latest cycle started
    \* fetchWithRetry(url, retries, delay)
    rPc,            \* "idle", "fetching", "sleeping", "returned", "thrown"
    rRetries,       \* argument retries
    rDelay,         \* argument delay
    rI,             \* loop variable i
    rStatuses,      \* status of every response so far (0: fetch itself threw)
    rWaits,         \* every setTimeout duration so far
    rResult,        \* status of the returned response
    \* fetchAllModels() and its caller
    fPc,            \* "idle", "batch", "pause", "synthetic", "returned", "thrown"
    fCall,          \* number of calls of fetchAllModels so far
    fBatch,         \* loop variable i of the batch loop
    fProcessed,     \* models whose batch has settled in this call
    chainPc,        \* per model: "none", "fetching", "done"
    requested,      \* per model: layers requested in the current batch, in request order
    answered,       \* per model: for each answered layer, whether its response was acceptable
    storedFrom,     \* per model: layers whose response was handed to storeForecast
    unavailable,    \* models with a model_unavailable_<id> row in metadata
    syntheticRuns,  \* number of generateSyntheticModels calls so far
    lastForecastFetch, \* metadata last_forecast_fetch
    verifiedCalls,  \* number of fetches the caller followed by runVerification
    \* the browser client's IndexedDB store "observations"
    clientObservations,
    \* the forecasts table and the data path of fetchAllModels that fills it
    forecasts,
    sPc,            \* "idle", "models"
    sAnchor,        \* commonIssueTime of the fetch in progress
    sFetched,       \* models whose fallback chain has ended in this fetch
    sRuns,          \* number of fetches started so far
    \* the verifier
    verifications,        \* server table verifications
    clientVerifications,  \* client store "verification"
    vRuns,                \* server runVerification calls so far
    vClientRuns,          \* client runVerification calls so far
    \* one call of the server's fetchMETARHistory, layer by layer
    mPc,            \* "idle", "layers", "hybrid", "done", "failed"
    mCalled,        \* the layers called so far, in call order
    mAnswers,       \* what each called layer answered
    mRaw,           \* local rawMetars
    \* statsService.ts
    dailyStats,         \* table leaderboard_daily_stats
    aggregated,         \* the dates aggregateDailyStats has processed since the last reset
    leaderboardCache,   \* table leaderboard_cache: rows [bucket, variable, data]
    lbCalls,            \* the calls of getLeaderboard so far: arguments, path, result
    clientScores,       \* client weatherService.ts: last calculateCompositeStats
    dbScores,           \* client db.ts: last calculateCompositeStats
    \* runUpdateCycle's rollup and cache tasks, step by step
    tailQueue,      \* pending setImmediate continuations: task and next loop index
    tailEnds,       \* cache and rollups at every `Cycle complete` so far
    \* POST /api/reset
    resetLog,       \* at every reset: the cache and rollups before it, the calls so far
    \* backfillStats()
    bPc,            \* "idle", "day", "pause", "done"
    bMissing,       \* missingDays still to process, latest day first
    bExisting,      \* existingDays as read at the start of the call
    bProcessed,     \* the days aggregateDailyStats was called for, in order
    bFailed,        \* the days whose aggregation threw
    \* the browser component TabContent
    requestRef,     \* requestRef.current
    loadPc,         \* per load: "none", "leaderboard", "stats", "earliest", "done"
    loadRows,       \* per load: the leaderboard it was answered with
    leaderboardData, chartData, eta, tabError, isLoading,   \* the component's state (tabError: `error`)
    tabWrites,      \* every state update so far: field, load, requestRef.current then
    \* the browser hook useWeatherTracker
    isRunning,      \* isRunning.current
    clientPc,       \* the await runFullUpdate is at, or "idle"
    clientStatus    \* the hook's state `status`

cycleVars == <<now, isUpdating, pc, metarLayer, rawMetars, tried, done,
               outcome, skipped, observations, immediateQueue, cycleStart>>

retryVars == <<rPc, rRetries, rDelay, rI, rStatuses, rWaits, rResult>>

fetchVars == <<fPc, fCall, fBatch, fProcessed, chainPc, requested, answered,
               storedFrom, unavailable, syntheticRuns, lastForecastFetch, verifiedCalls>>

cycleLocals == <<isUpdating, pc, metarLayer, rawMetars, tried, done, outcome,
                 skipped, immediateQueue, cycleStart>>

storeVars == <<forecasts, sPc, sAnchor, sFetched, sRuns>>

verifyVars == <<verifications, clientVerifications, vRuns, vClientRuns>>

metarVars == <<mPc, mCalled, mAnswers, mRaw>>

statsVars == <<dailyStats, aggregated, leaderboardCache, lbCalls, clientScores, dbScores>>

tailVars == <<tailQueue, tailEnds>>

resetVars == <<resetLog>>

backfillVars == <<bPc, bMissing, bExisting, bProcessed, bFailed>>

tabVars == <<requestRef, loadPc, loadRows, leaderboardData, chartData, eta, tabError,
             isLoading, tabWrites>>

clientVars == <<isRunning, clientPc, clientStatus>>

vars == <<cycleVars, retryVars, fetchVars, clientObservations, storeVars, verifyVars, metarVars, statsVars, tailVars, resetVars, backfillVars, tabVars, clientVars>>

notCycle == <<retryVars, fetchVars, clientObservations, storeVars, verifyVars, metarVars, statsVars, tailVars, resetVars, backfillVars, tabVars, clientVars>>
notRetry == <<cycleVars, fetchVars, clientObservations, storeVars, verifyVars, metarVars, statsVars, tailVars, resetVars, backfillVars, tabVars, clientVars>>
notFetch == <<cycleVars, retryVars, clientObservations, storeVars, verifyVars, metarVars, statsVars, tailVars, resetVars, backfillVars, tabVars, clientVars>>
notObs == <<cycleLocals, retryVars, fetchVars, storeVars, verifyVars, metarVars, statsVars, tailVars, resetVars, backfillVars, tabVars, clientVars>>
notStore == <<cycleLocals, observations, retryVars, fetchVars, clientObservations, verifyVars, metarVars, statsVars, tailVars, resetVars, backfillVars, tabVars, clientVars>>
notVerify == <<cycleVars, retryVars, fetchVars, clientObservations, storeVars, metarVars, statsVars, tailVars, resetVars, backfillVars, tabVars, clientVars>>
notMetar == <<cycleLocals, retryVars, fetchVars, clientObservations, storeVars, verifyVars, statsVars, tailVars, resetVars, backfillVars, tabVars, clientVars>>
notStats == <<cycleVars, retryVars, fetchVars, clientObservations, storeVars, verifyVars, metarVars, tailVars, resetVars, backfillVars, tabVars, clientVars>>
notTail == <<cycleVars, retryVars, fetchVars, clientObservations, storeVars, verifyVars, metarVars, resetVars, backfillVars, tabVars, clientVars>>
notBackfill == <<cycleVars, retryVars, fetchVars, clientObservations, storeVars, verifyVars, metarVars, tailVars, resetVars, tabVars, clientVars>>
notTab == <<cycleVars, retryVars, fetchVars, clientObservations, storeVars, verifyVars, metarVars, statsVars, tailVars, resetVars, backfillVars, clientVars>>
notClient == <<cycleVars, retryVars, fetchVars, clientObservations, storeVars, verifyVars, metarVars, statsVars, tailVars, resetVars, backfillVars, tabVars>>

\* ------------------------------------------------------------ ground truth
Abs(x) == IF x < 0 THEN -x ELSE x

\* Math.floor(now / 3600000) * 3600000
CurrentHour(t) == (t \div HOUR) * HOUR

\* Math.round(obsTimeEpoch / 3600000) * 3600000 (a half rounds up)
AlignedHour(t) == ((t + HOUR \div 2) \div HOUR) * HOUR

\* one station report: time, temperature, wind direction, weather codes in its text
Report(t, temp, codes) ==
    [exactTime |-> t, temp |-> temp, wdir |-> 40 * temp, codes |-> codes]

\* n reports on the hour, one every `step` hours back from hour h
HourlyReports(h, n, step) ==
    [i \in 1..n |-> Report(h - (i - 1) * step * HOUR,
                           ((h \div HOUR) - (i - 1) * step) % 5, {})]

\* what one ground-truth layer can answer at time t
MetarResults(t) ==
    LET h == CurrentHour(t) IN
    { [kind |-> "throw", records |-> <<>>],
      [kind |-> "object", records |-> <<>>],
      [kind |-> "array", records |-> <<>>],
      [kind |-> "array", records |-> HourlyReports(h, 19, 1)],
      [kind |-> "array", records |-> HourlyReports(h, 20, 1)],
      \* every second hour, and one report whose time cannot be parsed
      [kind |-> "array",
       records |-> HourlyReports(h, 19, 2) \o <<Report(0, 3, {"RA"})>>],
      \* hour h has three reports: (h-1):30 snow, (h-1):40 snow, h:10 rain
      [kind |-> "array",
       records |-> <<Report(h - 30, 6, {"SN"}), Report(h - 20, 7, {"SN"}),
                     Report(h + 10, 9, {"RA"})>>
                   \o HourlyReports(h - HOUR, 19, 1)] }

\* Array.isArray(result) && result.length >= 20
LayerAccepted(result) ==
    result.kind = "array" /\ Len(result.records) >= MIN_METAR_RECORDS

\* fetchHybridGroundTruth: {} on failure, else one amount per hour up to now+1h
HybridResults(t) ==
    LET h == CurrentHour(t) IN
    { [x \in {} |-> 0],
      [x \in {h - i * HOUR : i \in -1..(LOOKBACK_HOURS + 1)} |->
          [temperature |-> 1, wind_dir |-> 90, era_precip_amt |-> 2]] }

\* metarGroups[alignedHour]: the reports of one hour, in array order
MetarGroup(raw, target) ==
    SelectSeq(raw, LAMBDA r : r.exactTime > 0 /\ AlignedHour(r.exactTime) = target)

\* group.reduce((prev, curr) => |curr - target| < |prev - target| ? curr : prev)
RECURSIVE BestFrom(_, _, _, _)
BestFrom(group, i, prev, target) ==
    IF i > Len(group) THEN prev
    ELSE BestFrom(group, i + 1,
                  IF Abs(group[i].exactTime - target) < Abs(prev.exactTime - target)
                  THEN group[i] ELSE prev,
                  target)

BestReport(group, target) == BestFrom(group, 2, group[1], target)

\* faulty variant: the weather codes are those of the best report alone
MakeObservationBestCodes(group, era, target) ==
    LET best == BestReport(group, target) IN
    [obs_time |-> target,
     report_type |-> <<"METAR", Len(group) - 1>>,
     station_reports |-> Len(group),
     temperature |-> best.temp,
     wind_dir |-> best.wdir,
     weather_codes |-> best.codes,
     era_precip_amt |-> IF target \in DOMAIN era THEN era[target].era_precip_amt ELSE NULL]

\* the Observation built for one target hour from its group
MakeObservation(group, era, target) ==
    LET best == BestReport(group, target) IN
    [obs_time |-> target,
     report_type |-> <<"METAR", Len(group) - 1>>,
     station_reports |-> Len(group),
     temperature |-> best.temp,
     wind_dir |-> best.wdir,
     weather_codes |-> UNION {group[i].codes : i \in 1..Len(group)},
     era_precip_amt |-> IF target \in DOMAIN era THEN era[target].era_precip_amt ELSE NULL]

\* STRICT: if no real METAR exists, do NOT create a synthetic one
HasObservation(group, era, target) == Len(group) > 0

\* for (i = 0; i < 48; i++) ... observations.push(obs)
BuildObservations(raw, era, t) ==
    LET targets == {CurrentHour(t) - i * HOUR : i \in 0..(LOOKBACK_HOURS - 1)}
        metarGroups == [x \in targets |-> MetarGroup(raw, x)]
    IN  { MakeObservation(metarGroups[target], era, target) :
            target \in {x \in targets : HasObservation(metarGroups[x], era, x)} }

\* INSERT OR REPLACE INTO observations, keyed by obs_time
UpsertObservations(table, new) ==
    LET replaced == {n.obs_time : n \in new}
    IN  {o \in table : o.obs_time \notin replaced} \cup new

\* ------------------------------------------------------- the update cycle
CycleOrder == <<"reconcile", "models", "synthetic", "verify", "verify">>

Task(kind, left) == [kind |-> kind, left |-> left]

\* runUpdateCycle without its guard: isUpdating = true, then fetchMETARHistory
\* up to its first await (DELETE FROM observations, first layer requested)
TriggerUnguarded(c) ==
    /\ pc[c] = "idle"
    /\ isUpdating' = TRUE
    /\ observations' = {}
    /\ pc' = [pc EXCEPT ![c] = "metar"]
    /\ metarLayer' = [metarLayer EXCEPT ![c] = 1]
    /\ rawMetars' = [rawMetars EXCEPT ![c] = <<>>]
    /\ tried' = <<>>
    /\ done' = <<>>
    /\ outcome' = "running"
    /\ skipped' = FALSE
    /\ cycleStart' = {o.obs_time : o \in observations}
    /\ UNCHANGED <<now, immediateQueue>>

\* runUpdateCycle is called: `if (isUpdating) return;`, else as above
Trigger(c) ==
    /\ pc[c] = "idle"
    /\ IF isUpdating
       THEN /\ skipped' = TRUE
            /\ UNCHANGED <<now, cycleStart, isUpdating, pc, metarLayer, rawMetars, tried,
                           done, outcome, observations, immediateQueue>>
       ELSE TriggerUnguarded(c)

\* a layer answers with at least 20 records: break out of the loop and
\* await fetchHybridGroundTruth
MetarAccept(c) ==
    /\ pc[c] = "metar"
    /\ \E r \in MetarResults(now) :
          /\ LayerAccepted(r)
          /\ rawMetars' = [rawMetars EXCEPT ![c] = r.records]
    /\ tried' = Append(tried, TRUE)
    /\ pc' = [pc EXCEPT ![c] = "hybrid"]
    /\ UNCHANGED <<now, cycleStart, isUpdating, metarLayer, done, outcome, skipped,
                   observations, immediateQueue>>

\* a layer throws or answers too little, and another layer is left
MetarReject(c) ==
    /\ pc[c] = "metar"
    /\ metarLayer[c] < NumMetarLayers
    /\ \E r \in MetarResults(now) : ~LayerAccepted(r)
    /\ tried' = Append(tried, FALSE)
    /\ metarLayer' = [metarLayer EXCEPT ![c] = @ + 1]
    /\ UNCHANGED <<now, cycleStart, isUpdating, pc, rawMetars, done, outcome, skipped,
                   observations, immediateQueue>>

\* the last layer fails too, but the empty rawMetars goes unnoticed
MetarCriticalIgnored(c) ==
    /\ pc[c] = "metar"
    /\ metarLayer[c] = NumMetarLayers
    /\ \E r \in MetarResults(now) : ~LayerAccepted(r)
    /\ tried' = Append(tried, FALSE)
    /\ pc' = [pc EXCEPT ![c] = "hybrid"]
    /\ UNCHANGED <<now, cycleStart, isUpdating, metarLayer, rawMetars, done, outcome,
                   skipped, observations, immediateQueue>>

\* the last layer fails too: throw CRITICAL_METAR_FAILURE, caught by
\* runUpdateCycle's catch, and finally isUpdating = false
MetarCritical(c) ==
    /\ pc[c] = "metar"
    /\ metarLayer[c] = NumMetarLayers
    /\ \E r \in MetarResults(now) : ~LayerAccepted(r)
    /\ tried' = Append(tried, FALSE)
    /\ pc' = [pc EXCEPT ![c] = "idle"]
    /\ metarLayer' = [metarLayer EXCEPT ![c] = 0]
    /\ isUpdating' = FALSE
    /\ outcome' = "failed"
    /\ UNCHANGED <<now, cycleStart, rawMetars, done, skipped, observations,
                   immediateQueue>>

\* the reanalysis answer arrives: build and store the observations, return,
\* and fetchAllModels starts its first batch
Hybrid(c) ==
    /\ pc[c] = "hybrid"
    /\ \E era \in HybridResults(now) :
          observations' = UpsertObservations(observations,
                              BuildObservations(rawMetars[c], era, now))
    /\ metarLayer' = [metarLayer EXCEPT ![c] = 0]
    /\ rawMetars' = [rawMetars EXCEPT ![c] = <<>>]
    /\ done' = Append(done, "reconcile")
    /\ pc' = [pc EXCEPT ![c] = "models"]
    /\ UNCHANGED <<now, cycleStart, isUpdating, tried, outcome, skipped, immediateQueue>>

\* the step after `current` in runUpdateCycle's try block
NextStep(current) ==
    CASE current = "models" -> "synthetic"
      [] current = "synthetic" -> "verify1"
      [] current = "verify1" -> "verify2"
      [] current = "verify2" -> "rollup"

StepName(current) ==
    CASE current = "models" -> "models"
      [] current = "synthetic" -> "synthetic"
      [] current = "verify1" -> "verify"
      [] current = "verify2" -> "verify"

\* an awaited step of the cycle settles and the next one starts:
\*   models     every batch of fetchAllModels has settled (detail: SpecFetch)
\*   synthetic  generateSyntheticModels, last_forecast_fetch; fetchAllModels returns
\*   verify1/2  the two runVerification calls
Advance(c) ==
    /\ pc[c] \in {"models", "synthetic", "verify1", "verify2"}
    /\ done' = Append(done, StepName(pc[c]))
    /\ pc' = [pc EXCEPT ![c] = NextStep(pc[c])]
    /\ UNCHANGED <<now, cycleStart, isUpdating, metarLayer, rawMetars, tried, outcome,
                   skipped, observations, immediateQueue>>

\* loop iterations the queued tasks still have to run
RECURSIVE Backlog(_)
Backlog(q) == IF q = <<>> THEN 0 ELSE Head(q).left + Backlog(Tail(q))

\* index.ts 136-145: aggregateDailyStats(yesterday), aggregateDailyStats(today)
\* and refreshLeaderboardCache() are async functions called without await.
\* Each runs to its first `await setImmediate` and returns a pending promise;
\* the finally block then resets isUpdating.
Rollup(c) ==
    /\ pc[c] = "rollup"
    /\ Backlog(immediateQueue) <= MaxBacklog
    /\ immediateQueue' = immediateQueue \o
          << Task("aggYesterday", NumBuckets),
             Task("aggToday", NumBuckets),
             Task("refresh", NumBuckets * NumCacheVariables) >>
    /\ isUpdating' = FALSE
    /\ pc' = [pc EXCEPT ![c] = "idle"]
    /\ outcome' = "completed"
    /\ UNCHANGED <<now, cycleStart, metarLayer, rawMetars, tried, done, skipped,
                   observations>>

\* the oldest setImmediate callback runs: one loop iteration of its task
\* (one bucket of a rollup, one (bucket, variable) of the cache refresh),
\* which then awaits setImmediate again unless its loop is over
RunImmediate ==
    /\ UNCHANGED notCycle
    /\ immediateQueue # <<>>
    /\ LET t == Head(immediateQueue) IN
       immediateQueue' =
          IF t.left > 1
          THEN Append(Tail(immediateQueue), [t EXCEPT !.left = @ - 1])
          ELSE Tail(immediateQueue)
    /\ UNCHANGED <<now, cycleStart, isUpdating, pc, metarLayer, rawMetars, tried, done,
                   outcome, skipped, observations>>

TriggerAny == (\E c \in Calls : Trigger(c)) /\ UNCHANGED notCycle
MetarAcceptAny == (\E c \in Calls : MetarAccept(c)) /\ UNCHANGED notCycle
MetarRejectAny == (\E c \in Calls : MetarReject(c)) /\ UNCHANGED notCycle
MetarCriticalAny == (\E c \in Calls : MetarCritical(c)) /\ UNCHANGED notCycle
HybridAny == (\E c \in Calls : Hybrid(c)) /\ UNCHANGED notCycle
AdvanceAny == (\E c \in Calls : Advance(c)) /\ UNCHANGED notCycle
RollupAny == (\E c \in Calls : Rollup(c)) /\ UNCHANGED notCycle

CycleLocalsInit ==
    /\ isUpdating = FALSE
    /\ pc = [c \in Calls |-> "idle"]
    /\ metarLayer = [c \in Calls |-> 0]
    /\ rawMetars = [c \in Calls |-> <<>>]
    /\ tried = <<>>
    /\ done = <<>>
    /\ outcome = "none"
    /\ skipped = FALSE
    /\ immediateQueue = <<>>
    /\ cycleStart = {}

CycleInit ==
    /\ now = Now0
    /\ observations = {}
    /\ CycleLocalsInit

\* ----------------------------------------------------------- fetchWithRetry
\* the retries a call site may pass: 0 up to the default of 3
MaxRetries == 3
\* 200 OK, 400 and 404 client errors, 429, 500, 503, and 0 for a fetch that throws
Statuses == {0, 200, 400, 404, 429, 500, 503}
Delays == {500, 1000}

RECURSIVE Pow2(_)
Pow2(n) == IF n = 0 THEN 1 ELSE 2 * Pow2(n - 1)

\* faulty variant: every error status is retried
ShouldRetryAnyError(status) == status = 0 \/ status >= 400

\* fetch threw, or `res.status === 429 || res.status >= 500` throws
ShouldRetry(status) == status = 0 \/ status = 429 \/ status >= 500

\* a call: `for (let i = 0; i < retries; i++)` runs to the first await, or
\* falls through to `throw new Error('Max retries reached')`
RetryCall ==
    /\ rPc = "idle"
    /\ \E r \in 0..MaxRetries, d \in Delays :
          /\ rRetries' = r
          /\ rDelay' = d
          /\ rPc' = IF 0 < r THEN "fetching" ELSE "thrown"
    /\ rI' = 0
    /\ rStatuses' = <<>>
    /\ rWaits' = <<>>
    /\ rResult' = NULL
    /\ UNCHANGED notRetry

\* the awaited fetch settles
RetryResponse ==
    /\ rPc = "fetching"
    /\ \E status \in Statuses :
          /\ rStatuses' = Append(rStatuses, status)
          /\ IF ShouldRetry(status)
             THEN IF rI = rRetries - 1
                  THEN /\ rPc' = "thrown"
                       /\ UNCHANGED <<rWaits, rResult>>
                  ELSE /\ rPc' = "sleeping"
                       /\ rWaits' = Append(rWaits, rDelay * Pow2(rI))
                       /\ UNCHANGED rResult
             ELSE /\ rPc' = "returned"
                  /\ rResult' = status
                  /\ UNCHANGED rWaits
    /\ UNCHANGED <<rRetries, rDelay, rI>>
    /\ UNCHANGED notRetry

\* the backoff timer fires: i++, loop test, next fetch
RetryWake ==
    /\ rPc = "sleeping"
    /\ rI' = rI + 1
    /\ rPc' = IF rI + 1 < rRetries THEN "fetching" ELSE "thrown"
    /\ UNCHANGED <<rRetries, rDelay, rStatuses, rWaits, rResult>>
    /\ UNCHANGED notRetry

\* the caller has the result; the next call may start
RetryDone ==
    /\ rPc \in {"returned", "thrown"}
    /\ rPc' = "idle"
    /\ UNCHANGED <<rRetries, rDelay, rI, rStatuses, rWaits, rResult>>
    /\ UNCHANGED notRetry

RetryInit ==
    /\ rPc = "idle"
    /\ rRetries = 0
    /\ rDelay = 0
    /\ rI = 0
    /\ rStatuses = <<>>
    /\ rWaits = <<>>
    /\ rResult = NULL

NextRetry == RetryCall \/ RetryResponse \/ RetryWake \/ RetryDone

\* ----------------------------------------------------------- fetchAllModels
\* MODELS is cut down to this many entries
NumModels == 5
MaxFetchCalls == 1
BATCH_SIZE == 4
NumModelLayers == 5

Models == 1..NumModels

Min(a, b) == IF a < b THEN a ELSE b

\* MODELS.slice(i, i + BATCH_SIZE)
Batch(i) == (i + 1)..Min(i + BATCH_SIZE, NumModels)

\* what a layer's request can come back with: fetchWithRetry or json() throws,
\* HTTP 400, no hourly.time array, only null temperatures, 24 points, 25 points
Response(throws, ok, structured, temps, points) ==
    [throws |-> throws, ok |-> ok, structured |-> structured,
     nonNullTemps |-> temps, points |-> points]

ModelResponses ==
    { Response(TRUE, FALSE, FALSE, 0, 0),
      Response(FALSE, FALSE, TRUE, 5, 48),
      Response(FALSE, TRUE, FALSE, 0, 0),
      Response(FALSE, TRUE, TRUE, 0, 48),
      Response(FALSE, TRUE, TRUE, 5, 24),
      Response(FALSE, TRUE, TRUE, 1, 25) }

\* what the response was, as the fetch log shows it: HTTP OK, some non-null
\* temperature, more than 24 hours
Acceptable(r) == ~r.throws /\ r.ok /\ r.nonNullTemps >= 1 /\ r.points > 24

\* faulty variant: a series of exactly 24 points is stored
LayerUsableShort(r) ==
    /\ ~r.throws /\ r.ok /\ r.structured
    /\ r.nonNullTemps > 0
    /\ ~(r.points < 24)

\* the path of the try block that reaches storeForecast
LayerUsable(r) ==
    /\ ~r.throws /\ r.ok /\ r.structured
    /\ r.nonNullTemps > 0
    /\ ~(r.points <= 24)

\* batch.map(async config => ...): every chain of the batch runs to its first await
StartBatch(i) ==
    /\ fBatch' = i
    /\ chainPc' = [m \in Models |-> IF m \in Batch(i) THEN "fetching" ELSE "none"]
    /\ requested' = [m \in Models |-> IF m \in Batch(i) THEN <<1>> ELSE <<>>]
    /\ answered' = [m \in Models |-> <<>>]
    /\ storedFrom' = [m \in Models |-> {}]

FetchStart ==
    /\ fPc = "idle"
    /\ fCall < MaxFetchCalls
    /\ fCall' = fCall + 1
    /\ fPc' = "batch"
    /\ fProcessed' = 0
    /\ StartBatch(0)
    /\ UNCHANGED <<unavailable, syntheticRuns, lastForecastFetch, verifiedCalls>>
    /\ UNCHANGED notFetch

\* faulty variant: the failure of the last layer leaves fetchAllModels as an exception
LayersExhaustedThrows(m) ==
    /\ chainPc' = [chainPc EXCEPT ![m] = "done"]
    /\ fPc' = "thrown"
    /\ UNCHANGED <<requested, storedFrom, unavailable>>

\* `if (!success)`: the flag row is written and the chain's promise fulfils
LayersExhausted(m) ==
    /\ chainPc' = [chainPc EXCEPT ![m] = "done"]
    /\ unavailable' = unavailable \cup {m}
    /\ UNCHANGED <<requested, storedFrom, fPc>>

\* the awaited request of model m's current layer settles
LayerResponse(m) ==
    /\ fPc = "batch"
    /\ chainPc[m] = "fetching"
    /\ \E r \in ModelResponses :
          LET layer == requested[m][Len(requested[m])]
          IN  /\ answered' = [answered EXCEPT ![m] = Append(@, Acceptable(r))]
              /\ IF LayerUsable(r)
                 THEN /\ storedFrom' = [storedFrom EXCEPT ![m] = @ \cup {layer}]
                      /\ chainPc' = [chainPc EXCEPT ![m] = "done"]
                      /\ UNCHANGED <<requested, unavailable, fPc>>
                 ELSE IF layer < NumModelLayers
                      THEN /\ requested' = [requested EXCEPT ![m] = Append(@, layer + 1)]
                           /\ UNCHANGED <<chainPc, storedFrom, unavailable, fPc>>
                      ELSE LayersExhausted(m)
    /\ UNCHANGED <<fCall, fBatch, fProcessed, syntheticRuns, lastForecastFetch, verifiedCalls>>
    /\ UNCHANGED notFetch

LayerResponseAny == \E m \in Models : LayerResponse(m)

\* faulty variant: the batch is left as soon as one of its chains has settled
BatchSettledEarly ==
    /\ fPc = "batch"
    /\ \E m \in Batch(fBatch) : chainPc[m] = "done"
    /\ fProcessed' = fProcessed + Cardinality(Batch(fBatch))
    /\ fPc' = IF fBatch + BATCH_SIZE < NumModels THEN "pause" ELSE "synthetic"
    /\ chainPc' = [m \in Models |-> "none"]
    /\ requested' = [m \in Models |-> <<>>]
    /\ answered' = [m \in Models |-> <<>>]
    /\ storedFrom' = [m \in Models |-> {}]
    /\ UNCHANGED <<fCall, fBatch, unavailable, syntheticRuns, lastForecastFetch, verifiedCalls>>
    /\ UNCHANGED notFetch

\* Promise.allSettled(batchPromises) resolves
BatchSettled ==
    /\ fPc = "batch"
    /\ \A m \in Batch(fBatch) : chainPc[m] = "done"
    /\ fProcessed' = fProcessed + Cardinality(Batch(fBatch))
    /\ fPc' = IF fBatch + BATCH_SIZE < NumModels THEN "pause" ELSE "synthetic"
    /\ chainPc' = [m \in Models |-> "none"]
    /\ requested' = [m \in Models |-> <<>>]
    /\ answered' = [m \in Models |-> <<>>]
    /\ storedFrom' = [m \in Models |-> {}]
    /\ UNCHANGED <<fCall, fBatch, unavailable, syntheticRuns, lastForecastFetch, verifiedCalls>>
    /\ UNCHANGED notFetch

\* the 1000 ms pause between batches ends: i += BATCH_SIZE, next batch
PauseOver ==
    /\ fPc = "pause"
    /\ fPc' = "batch"
    /\ StartBatch(fBatch + BATCH_SIZE)
    /\ UNCHANGED <<fCall, fProcessed, unavailable, syntheticRuns, lastForecastFetch, verifiedCalls>>
    /\ UNCHANGED notFetch

\* generateSyntheticModels(commonIssueTime) resolves; last_forecast_fetch is written
SyntheticDone ==
    /\ fPc = "synthetic"
    /\ syntheticRuns' = syntheticRuns + 1
    /\ lastForecastFetch' = CurrentHour(now)
    /\ fPc' = "returned"
    /\ UNCHANGED <<fCall, fBatch, fProcessed, chainPc, requested, answered, storedFrom,
                   unavailable, verifiedCalls>>
    /\ UNCHANGED notFetch

\* runUpdateCycle goes on: await runVerification()
CallerVerify ==
    /\ fPc = "returned"
    /\ verifiedCalls' = verifiedCalls + 1
    /\ fPc' = "idle"
    /\ UNCHANGED <<fCall, fBatch, fProcessed, chainPc, requested, answered, storedFrom,
                   unavailable, syntheticRuns, lastForecastFetch>>
    /\ UNCHANGED notFetch

FetchLocalsInit ==
    /\ fPc = "idle"
    /\ fCall = 0
    /\ fBatch = 0
    /\ fProcessed = 0
    /\ chainPc = [m \in Models |-> "none"]
    /\ requested = [m \in Models |-> <<>>]
    /\ answered = [m \in Models |-> <<>>]
    /\ storedFrom = [m \in Models |-> {}]
    /\ syntheticRuns = 0
    /\ verifiedCalls = 0

FetchInit ==
    /\ FetchLocalsInit
    /\ unavailable = {}
    /\ lastForecastFetch = NULL

NextFetch ==
    \/ FetchStart
    \/ LayerResponseAny
    \/ BatchSettled
    \/ PauseOver
    \/ SyntheticDone
    \/ CallerVerify

\* ------------------------------------------- ground truth, server and client
MaxTicks == 1
CLIENT_LOOKBACK_HOURS == 72

\* an hour passes
ObsTick ==
    /\ now < Now0 + MaxTicks * HOUR
    /\ now' = now + HOUR
    /\ UNCHANGED <<observations, clientObservations>>
    /\ UNCHANGED notObs

\* server fetchMETARHistory from call to return: the table is emptied; r is the
\* answer of the first layer that is accepted, or the kind of answer all five
\* layers gave when none is (the function then throws)
ServerReconcile ==
    /\ \E r \in MetarResults(now), era \in HybridResults(now) :
          observations' =
             IF LayerAccepted(r)
             THEN UpsertObservations({}, BuildObservations(r.records, era, now))
             ELSE {}
    /\ UNCHANGED <<now, clientObservations>>
    /\ UNCHANGED notObs

\* client: `Array.isArray(data) && data.length > 0` of an ok response
ClientAccepted(result) == result.kind = "array" /\ Len(result.records) > 0

\* client: the Observation of a target hour that has a report in metarMap
ClientFromMetar(group, era, target) ==
    LET metar == BestReport(group, target) IN
    [obs_time |-> target,
     report_type |-> <<"METAR", 0>>,
     station_reports |-> Len(group),
     temperature |-> metar.temp,
     wind_dir |-> metar.wdir,
     weather_codes |-> metar.codes,
     era_precip_amt |-> IF target \in DOMAIN era THEN era[target].era_precip_amt ELSE NULL]

\* client: the Observation of a target hour that has reanalysis data only
ClientFromEra(era, target) ==
    [obs_time |-> target,
     report_type |-> <<"SYNTHETIC", 0>>,
     station_reports |-> 0,
     temperature |-> era[target].temperature,
     wind_dir |-> era[target].wind_dir,
     weather_codes |-> {},
     era_precip_amt |-> era[target].era_precip_amt]

\* client: for (i = 0; i < 72; i++) { if (!metar && !era) continue; ... }
ClientBuildObservations(raw, era, t) ==
    LET targets == {CurrentHour(t) - i * HOUR : i \in 0..(CLIENT_LOOKBACK_HOURS - 1)}
        metarMap == [x \in targets |-> MetarGroup(raw, x)]
        kept == {x \in targets : Len(metarMap[x]) > 0 \/ x \in DOMAIN era}
    IN  { IF Len(metarMap[x]) > 0
          THEN ClientFromMetar(metarMap[x], era, x)
          ELSE ClientFromEra(era, x) : x \in kept }

\* client fetchMETARHistory from call to return; bulkPut keys by obs_time
ClientReconcile ==
    /\ \E r \in MetarResults(now), era \in HybridResults(now) :
          LET raw == IF ClientAccepted(r) THEN r.records ELSE <<>>
          IN  clientObservations' =
                 UpsertObservations(clientObservations,
                                    ClientBuildObservations(raw, era, now))
    /\ UNCHANGED <<now, observations>>
    /\ UNCHANGED notObs

ObsInit == clientObservations = {}

NextObs == ObsTick \/ ServerReconcile \/ ClientReconcile

\* ------------------------------------------------- the forecasts table
MaxStoreRuns == 2
DataModels == {"ecmwf", "gfs"}
SyntheticModels == {"average_of_models", "median_of_models"}
SYNTHETIC_WINDOW == 10 * 24 * HOUR

\* the provider's hourly time strings, "2024-01-01T05:00" as <<day, hour>>
IsoTime(t) == <<t \div (24 * HOUR), (t % (24 * HOUR)) \div HOUR>>

\* new Date(isoStr + 'Z').getTime()
parseUTC(iso) == (iso[1] * 24 + iso[2]) * HOUR

\* n hourly points from `start`; every nullEvery-th temperature is null, and
\* a provider with nulls returns no wind speed on even hours
HourlySeries(start, n, nullEvery, offset) ==
    [i \in 1..n |->
        [time |-> IsoTime(start + (i - 1) * HOUR),
         temperature_2m |->
            IF nullEvery > 0 /\ i % nullEvery = 0 THEN NULL
            ELSE offset + 2 * (((start \div HOUR) + i) % 4),
         wind_speed_10m |->
            IF nullEvery > 0 /\ ((start \div HOUR) + i) % 2 = 0 THEN NULL
            ELSE 10 + offset + (((start \div HOUR) + i) % 3)]]

\* responses that pass the checks of fetchAllModels: more than 24 points,
\* some temperature; past_days makes every series start before the anchor
ProviderSeries(anchor) ==
    { HourlySeries(anchor - 2 * HOUR, 25, 0, 0),
      HourlySeries(anchor - HOUR, 26, 3, 4) }

ForecastRecord(modelId, issueTime, validTime, temp) ==
    [id |-> <<modelId, issueTime, validTime>>,
     model_id |-> modelId,
     issue_time |-> issueTime,
     valid_time |-> validTime,
     temperature_2m |-> temp,
     wind_speed_10m |-> NULL,
     wind_direction_10m |-> NULL,
     rain |-> NULL,
     snowfall |-> NULL,
     weather_code |-> NULL,
     precipitation_probability |-> NULL]

\* the record of storeForecast: wind_speed_10m: getVal('wind_speed_10m', i)
StoredRecord(modelId, issueTime, point) ==
    [ForecastRecord(modelId, issueTime, parseUTC(point.time), point.temperature_2m)
        EXCEPT !.wind_speed_10m = point.wind_speed_10m]

\* faulty variant: rows before the anchor are kept
storeForecastKeepsPast(modelId, series, issueTime) ==
    { StoredRecord(modelId, issueTime, series[i]) :
        i \in {j \in 1..Len(series) : series[j].temperature_2m # NULL} }

\* the rows storeForecast inserts: validTime < issueTime and null temperatures are skipped
storeForecast(modelId, series, issueTime) ==
    { StoredRecord(modelId, issueTime, series[i]) :
        i \in {j \in 1..Len(series) :
                  /\ ~(parseUTC(series[j].time) < issueTime)
                  /\ series[j].temperature_2m # NULL} }

\* INSERT OR REPLACE INTO forecasts, keyed by id
UpsertForecasts(table, new) ==
    LET replaced == {n.id : n \in new}
    IN  {f \in table : f.id \notin replaced} \cup new

\* the variables of FORECAST_VARIABLES the rows carry with a linear mean
SyntheticVariables == {"temperature_2m", "wind_speed_10m"}

\* values.reduce((a, b) => a + b, 0) over the forecasts' values of varName
RECURSIVE SumValues(_, _)
SumValues(S, varName) ==
    IF S = {} THEN 0
    ELSE LET x == CHOOSE y \in S : TRUE
         IN  x[varName] + SumValues(S \ {x}, varName)

\* sorted[mid] or the mean of the two middle values
MedianOf(group, varName) ==
    LET below(f) == Cardinality({g \in group : g[varName] < f[varName]})
        upto(f) == Cardinality({g \in group : g[varName] <= f[varName]})
        n == Cardinality(group)
        at(k) == (CHOOSE f \in group : below(f) < k /\ k <= upto(f))[varName]
    IN  IF n % 2 = 0 THEN (at(n \div 2) + at(n \div 2 + 1)) \div 2
        ELSE at(n \div 2 + 1)

\* `values` are the non-null values of the group; `if (values.length > 0)`
\* the mean and the median, else null
SyntheticValue(group, varName, kind) ==
    LET values == {f \in group : f[varName] # NULL}
    IN  IF Cardinality(values) > 0
        THEN IF kind = "average_of_models"
             THEN SumValues(values, varName) \div Cardinality(values)
             ELSE MedianOf(values, varName)
        ELSE NULL

\* generateSyntheticModels: concrete forecasts with valid time within ten days
\* of the anchor, grouped by (valid_time, issue_time); cells of one forecast
\* are skipped; every variable is aggregated over its own non-null values
generateSyntheticModels(table, issueTime) ==
    LET relevant == {f \in table :
                        /\ f.valid_time >= issueTime - SYNTHETIC_WINDOW
                        /\ f.valid_time < issueTime + SYNTHETIC_WINDOW
                        /\ f.model_id \notin SyntheticModels}
        cells == {<<f.valid_time, f.issue_time>> : f \in relevant}
        group(c) == {f \in relevant : f.valid_time = c[1] /\ f.issue_time = c[2]}
        used == {c \in cells : ~(Cardinality(group(c)) < 2)}
        record(kind, c) ==
            [ForecastRecord(kind, c[2], c[1], SyntheticValue(group(c), "temperature_2m", kind))
                EXCEPT !.wind_speed_10m = SyntheticValue(group(c), "wind_speed_10m", kind)]
    IN  { record("average_of_models", c) : c \in used }
        \cup
        { record("median_of_models", c) : c \in used }

\* fetchAllModels starts: commonIssueTime
StoreStart ==
    /\ sPc = "idle"
    /\ sRuns < MaxStoreRuns
    /\ sRuns' = sRuns + 1
    /\ sPc' = "models"
    /\ sAnchor' = CurrentHour(now)
    /\ sFetched' = {}
    /\ UNCHANGED <<now, forecasts>>
    /\ UNCHANGED notStore

\* the chain of one model ends: a layer's series is stored, or all layers failed
StoreModel(m) ==
    /\ sPc = "models"
    /\ m \notin sFetched
    /\ sFetched' = sFetched \cup {m}
    /\ \/ \E series \in ProviderSeries(sAnchor) :
             forecasts' = UpsertForecasts(forecasts, storeForecast(m, series, sAnchor))
       \/ UNCHANGED forecasts
    /\ UNCHANGED <<now, sPc, sAnchor, sRuns>>
    /\ UNCHANGED notStore

StoreModelAny == \E m \in DataModels : StoreModel(m)

\* every batch has settled: generateSyntheticModels(commonIssueTime)
StoreSynthetic ==
    /\ sPc = "models"
    /\ sFetched = DataModels
    /\ forecasts' = UpsertForecasts(forecasts, generateSyntheticModels(forecasts, sAnchor))
    /\ sPc' = "idle"
    /\ UNCHANGED <<now, sAnchor, sFetched, sRuns>>
    /\ UNCHANGED notStore

\* an hour passes between two fetches
StoreTick ==
    /\ sPc = "idle"
    /\ now < Now0 + MaxTicks * HOUR
    /\ now' = now + HOUR
    /\ UNCHANGED storeVars
    /\ UNCHANGED notStore

StoreLocalsInit ==
    /\ sPc = "idle"
    /\ sAnchor = 0
    /\ sFetched = {}
    /\ sRuns = 0

StoreInit ==
    /\ forecasts = {}
    /\ StoreLocalsInit

NextStore == StoreStart \/ StoreModelAny \/ StoreSynthetic \/ StoreTick

\* ------------------------------------------------------------ the verifier
MaxForecastRows == 3
VERIFY_CHUNK == 6 * HOUR

\* the catalogue variables carried by the model's records that have a
\* VERIFICATION_VARIABLES entry of the same name
\* the names of the server's loop that the rows of the model carry
FORECAST_VARIABLES == {"temperature_2m", "wind_direction_10m", "precipitation_probability"}

\* the names of VERIFICATION_VARIABLES, the client's loop
VERIFICATION_VARIABLES ==
    {"temperature_2m", "wind_direction_10m", "wind_vector", "precip_probability",
     "rain_occurrence", "snow_occurrence"}

\* a number that is not one: undefined / 100
NaN == -8888

Flag(b) == IF b THEN 1 ELSE 0

\* Math.sin of a multiple of ten degrees, in thousandths
Sin1000(deg) ==
    LET quarter == <<0, 174, 342, 500, 643, 766, 866, 940, 985, 1000>>
        q == deg % 360
    IN  IF q <= 90 THEN quarter[q \div 10 + 1]
        ELSE IF q <= 180 THEN quarter[(180 - q) \div 10 + 1]
        ELSE IF q <= 270 THEN -quarter[(q - 180) \div 10 + 1]
        ELSE -quarter[(360 - q) \div 10 + 1]

Cos1000(deg) == Sin1000(deg + 90)

\* Math.sqrt, rounded down
RECURSIVE SqrtBetween(_, _, _)
SqrtBetween(n, lo, hi) ==
    IF hi - lo <= 1 THEN lo
    ELSE LET mid == (lo + hi) \div 2
         IN  IF mid * mid <= n THEN SqrtBetween(n, mid, hi) ELSE SqrtBetween(n, lo, mid)

Sqrt(n) == SqrtBetween(n, 0, IF n < 46340 THEN n + 1 ELSE 46341)

\* Math.sqrt(Math.pow(fU - oU, 2) + Math.pow(fV - oV, 2)), in thousandths,
\* with u = -speed * sin(dir), v = -speed * cos(dir)
VectorError(fSpd, fDir, oSpd, oDir) ==
    LET fU == -fSpd * Sin1000(fDir)
        fV == -fSpd * Cos1000(fDir)
        oU == -oSpd * Sin1000(oDir)
        oV == -oSpd * Cos1000(oDir)
    IN  Sqrt((fU - oU) * (fU - oU) + (fV - oV) * (fV - oV))

\* amounts are in tenths of a millimetre: `> 0.1` is `> 1`
RainForecast(f) ==
    LET code == IF f.weather_code = NULL THEN 0 ELSE f.weather_code
    IN  (f.rain # NULL /\ f.rain > 1) \/ (code >= 50 /\ code <= 69) \/ (code >= 80 /\ code <= 99)

SnowForecast(f) ==
    LET code == IF f.weather_code = NULL THEN 0 ELSE f.weather_code
    IN  (f.snowfall # NULL /\ f.snowfall > 1) \/ (code >= 70 /\ code <= 79)
            \/ (code >= 85 /\ code <= 86)

\* (forecast.valid_time - forecast.issue_time) / 3600000
LeadTime(f) == (f.valid_time - f.issue_time) \div HOUR

\* faulty variant: the lead time is not tested
LeadAny(f) == TRUE

\* `if (leadTime < 0) continue`
LeadOK(f) == ~(LeadTime(f) < 0)

\* `${model_id}_${name}_${valid_time}_${leadTime.toFixed(1)}`: the lead in tenths
VerifyKey(f, name) == <<f.model_id, name, f.valid_time, LeadTime(f) * 10>>

VerificationRecord(f, name, fcstVal, obsVal, error, bias) ==
    [key |-> VerifyKey(f, name),
     model_id |-> f.model_id,
     variable |-> name,
     valid_time |-> f.valid_time,
     issue_time |-> f.issue_time,
     lead_time_hours |-> LeadTime(f),
     forecast_value |-> fcstVal,
     observed_value |-> obsVal,
     error |-> error,
     absolute_error |-> Abs(error),
     squared_error |-> error * error,
     bias |-> bias]

\* server: the records of one (forecast, observation) pair for one variable
ServerVariable(f, o, name) ==
    IF name \notin VERIFICATION_VARIABLES THEN {}      \* if (!mapping) continue
    ELSE IF name = "wind_direction_10m"
    THEN IF f.wind_direction_10m = NULL \/ o.wind_dir = NULL THEN {}
         ELSE LET d == Abs(f.wind_direction_10m - o.wind_dir)
                  diff == IF d > 180 THEN 360 - d ELSE d
              IN  {VerificationRecord(f, name, f.wind_direction_10m, o.wind_dir, diff, 0)}
    ELSE IF name = "precipitation_probability"
    THEN IF f.precipitation_probability = NULL THEN {}
         ELSE LET obsFlag == Flag(o.weather_codes # {})             \* STRICT: METAR only
                  bias == f.precipitation_probability - 100 * obsFlag   \* hundredths
                  brier == bias * bias                                \* ten-thousandths
              IN  {[VerificationRecord(f, "precip_prob", f.precipitation_probability,
                                       100 * obsFlag, brier, bias)
                        EXCEPT !.variable = name, !.squared_error = brier]}
    ELSE IF name = "rain_occurrence"
    THEN IF f.weather_code = NULL /\ f.rain = NULL THEN {}
         ELSE LET p == Flag(RainForecast(f))
                  obsFlag == Flag("RA" \in o.weather_codes)
              IN  {VerificationRecord(f, name, p, obsFlag, Abs(p - obsFlag), p - obsFlag)}
    ELSE IF name = "snow_occurrence"
    THEN IF f.weather_code = NULL /\ f.snowfall = NULL THEN {}
         ELSE LET p == Flag(SnowForecast(f))
                  obsFlag == Flag("SN" \in o.weather_codes)
              IN  {VerificationRecord(f, name, p, obsFlag, Abs(p - obsFlag), p - obsFlag)}
    ELSE IF o.temperature # NULL /\ f.temperature_2m # NULL
         THEN {VerificationRecord(f, name, f.temperature_2m, o.temperature,
                                  f.temperature_2m - o.temperature,
                                  f.temperature_2m - o.temperature)}
         ELSE {}

\* server: obsMap.get(forecast.valid_time), lead test, loop over the variables
ServerForecast(f, obsMap) ==
    LET obs == {o \in obsMap : o.obs_time = f.valid_time} IN
    IF obs = {} THEN {}
    ELSE IF ~LeadOK(f) THEN {}
    ELSE UNION {ServerVariable(f, CHOOSE o \in obs : TRUE, name) : name \in FORECAST_VARIABLES}

\* server: one six-hour chunk, observations loaded with an hour of margin
ServerChunk(fs, os, start) ==
    LET obsMap == {o \in os : o.obs_time >= start - HOUR
                               /\ o.obs_time < start + VERIFY_CHUNK + HOUR}
        chunk == {f \in fs : f.valid_time >= start /\ f.valid_time < start + VERIFY_CHUNK}
    IN  UNION {ServerForecast(f, obsMap) : f \in chunk}

\* server: every record one call of runVerification writes
runVerification(fs, os) ==
    IF fs = {} THEN {}
    ELSE LET minTime == CHOOSE t \in {f.valid_time : f \in fs} :
                           \A f \in fs : t <= f.valid_time
             maxTime == CHOOSE t \in {f.valid_time : f \in fs} :
                           \A f \in fs : t >= f.valid_time
             starts == {minTime + k * VERIFY_CHUNK :
                           k \in 0..((maxTime - minTime) \div VERIFY_CHUNK)}
         IN  UNION {ServerChunk(fs, os, start) : start \in starts}

\* client: while (diff <= -180) diff += 360; while (diff > 180) diff -= 360
RECURSIVE WrapDiff(_)
WrapDiff(diff) ==
    IF diff <= -180 THEN WrapDiff(diff + 360)
    ELSE IF diff > 180 THEN WrapDiff(diff - 360)
    ELSE diff

\* client: the records of one (observation, forecast) pair for one variable
ClientVariable(f, o, name) ==
    IF name = "wind_vector"
    THEN IF f.wind_speed_10m = NULL \/ o.wind_speed = NULL
            \/ f.wind_direction_10m = NULL \/ o.wind_dir = NULL THEN {}
         ELSE LET vectorError == VectorError(f.wind_speed_10m, f.wind_direction_10m,
                                             o.wind_speed, o.wind_dir)
              IN  {VerificationRecord(f, name, f.wind_speed_10m, o.wind_speed,
                                      vectorError, vectorError)}
    ELSE IF name = "precip_probability"
    \* forecast['precip_probability'] is undefined, not null: the row is written
    THEN LET obsFlag == Flag(o.weather_codes # {}
                             \/ (o.era_precip_amt # NULL /\ o.era_precip_amt > 1))
         IN  {[VerificationRecord(f, "precip_prob", NULL, 100 * obsFlag, NaN, NaN)
                   EXCEPT !.variable = name, !.absolute_error = NaN, !.squared_error = NaN]}
    ELSE IF name = "rain_occurrence"
    THEN IF f.weather_code = NULL /\ f.rain = NULL THEN {}
         ELSE LET p == Flag(RainForecast(f))
                  obsFlag == Flag("RA" \in o.weather_codes
                                  \/ (o.era_rain_amt # NULL /\ o.era_rain_amt > 1))
                  err == (p - obsFlag) * (p - obsFlag)
              IN  {VerificationRecord(f, name, p, obsFlag, err, p - obsFlag)}
    ELSE IF name = "snow_occurrence"
    THEN IF f.weather_code = NULL /\ f.snowfall = NULL THEN {}
         ELSE LET p == Flag(SnowForecast(f))
                  obsFlag == Flag("SN" \in o.weather_codes
                                  \/ (o.era_snow_amt # NULL /\ o.era_snow_amt > 1))
                  err == (p - obsFlag) * (p - obsFlag)
              IN  {VerificationRecord(f, name, p, obsFlag, err, p - obsFlag)}
    ELSE
    LET fcstVal == IF name = "wind_direction_10m" THEN f.wind_direction_10m
                   ELSE f.temperature_2m
        obsVal == IF name = "wind_direction_10m" THEN o.wind_dir ELSE o.temperature
        error == IF name = "wind_direction_10m" THEN WrapDiff(fcstVal - obsVal)
                 ELSE fcstVal - obsVal
    IN  IF obsVal = NULL \/ fcstVal = NULL THEN {}
        ELSE {VerificationRecord(f, name, fcstVal, obsVal, error, error)}

\* client: for each observation, forecastsByTime[obs.obs_time], lead test
clientRunVerification(fs, os) ==
    UNION { UNION {ClientVariable(f, o, name) : name \in VERIFICATION_VARIABLES} :
              <<f, o>> \in {p \in fs \X os : p[1].valid_time = p[2].obs_time /\ LeadOK(p[1])} }

\* faulty variant: a conflicting row is merged into the old one
UpsertVerificationMerges(table, v) ==
    IF \E x \in table : x.key = v.key
    THEN LET old == CHOOSE x \in table : x.key = v.key
         IN  (table \ {old}) \cup {[v EXCEPT !.squared_error = old.squared_error + v.squared_error]}
    ELSE table \cup {v}

\* INSERT OR REPLACE INTO verifications, keyed by key
UpsertVerification(table, v) ==
    {x \in table : x.key # v.key} \cup {v}

\* the transaction: insert.run(v) for every record of the list
RECURSIVE UpsertVerifications(_, _)
UpsertVerifications(table, list) ==
    IF list = {} THEN table
    ELSE LET v == CHOOSE x \in list : TRUE
         IN  UpsertVerifications(UpsertVerification(table, v), list \ {v})

\* runUpdateCycle: await runVerification(), twice
RunVerification ==
    /\ vRuns < 2
    /\ vRuns' = vRuns + 1
    /\ verifications' = UpsertVerifications(verifications, runVerification(forecasts, observations))
    /\ UNCHANGED <<clientVerifications, vClientRuns>>
    /\ UNCHANGED notVerify

\* the client's runVerification over the same two stores
ClientRunVerification ==
    /\ vClientRuns < 1
    /\ vClientRuns' = vClientRuns + 1
    /\ clientVerifications' =
          UpsertVerifications(clientVerifications, clientRunVerification(forecasts, observations))
    /\ UNCHANGED <<verifications, vRuns>>
    /\ UNCHANGED notVerify

VerifyInit ==
    /\ verifications = {}
    /\ clientVerifications = {}
    /\ vRuns = 0
    /\ vClientRuns = 0

\* the verifier's inputs: rows of the two tables around hour h
Forecast(modelId, issueTime, validTime, temp, wdir) ==
    [ForecastRecord(modelId, issueTime, validTime, temp) EXCEPT !.wind_direction_10m = wdir]

ForecastPool ==
    LET h == CurrentHour(Now0) IN
    { [Forecast("gfs", h - 12 * HOUR, h, 3, 350)
          EXCEPT !.wind_speed_10m = 10, !.rain = 50, !.weather_code = 61,
                 !.precipitation_probability = 100],
      [Forecast("ecmwf", h - 12 * HOUR, h, 5, NULL)
          EXCEPT !.wind_speed_10m = 12, !.rain = 0, !.snowfall = 0, !.weather_code = 0,
                 !.precipitation_probability = 20],
      Forecast("gfs", h, h - HOUR, 4, 10),
      Forecast("gfs", h - 24 * HOUR, h, 1, 20),
      [Forecast("ecmwf", h - 2 * HOUR, h - HOUR, 2, 100) EXCEPT !.wind_speed_10m = 8],
      Forecast("gfs", h - 12 * HOUR, h + 6 * HOUR, 7, 90) }

Observed(t, temp, wdir, codes) ==
    [obs_time |-> t,
     report_type |-> <<"METAR", 0>>,
     station_reports |-> 1,
     temperature |-> temp,
     wind_dir |-> wdir,
     wind_speed |-> NULL,
     weather_codes |-> codes,
     era_precip_amt |-> NULL,
     era_rain_amt |-> NULL,
     era_snow_amt |-> NULL]

\* a rain report with dry reanalysis, a clear report with reanalysis rain, and
\* a clear report an hour earlier
ObservationPool ==
    LET h == CurrentHour(Now0) IN
    { [Observed(h, 4, 10, {"RA"})
          EXCEPT !.wind_speed = 10, !.era_precip_amt = 0, !.era_rain_amt = 0, !.era_snow_amt = 0],
      [Observed(h, 2, NULL, {})
          EXCEPT !.era_precip_amt = 25, !.era_rain_amt = 25, !.era_snow_amt = 0],
      [Observed(h - HOUR, 0, 200, {}) EXCEPT !.wind_speed = 5] }

\* a row left by an earlier cycle under the key of gfs, temperature_2m, hour h, lead 12
StaleVerification ==
    LET h == CurrentHour(Now0) IN
    VerificationRecord(Forecast("gfs", h - 12 * HOUR, h, 9, 350), "temperature_2m", 9, 0, 9, 9)

\* the tables as the verifier may find them
VerifyInputs ==
    /\ forecasts \in {T \in SUBSET ForecastPool : Cardinality(T) <= MaxForecastRows}
    /\ observations \in {T \in SUBSET ObservationPool :
                            \A a, b \in T : a.obs_time = b.obs_time => a = b}
    /\ verifications \in {{}, {StaleVerification}}
    /\ clientVerifications = {}
    /\ vRuns = 0
    /\ vClientRuns = 0

NextVerify == RunVerification \/ ClientRunVerification

\* ------------------------------------- the ground-truth layers, one by one
\* faulty variant: an array that is too short is kept and added to
RawAfterMerging(raw, result) ==
    IF result.kind = "array" THEN raw \o result.records ELSE raw

\* `if (Array.isArray(result) && result.length >= 20) rawMetars = result`
RawAfter(raw, result) ==
    IF LayerAccepted(result) THEN result.records ELSE raw

\* fetchMETARHistory is called: DELETE FROM observations, first layer called
MetarCall ==
    /\ mPc \in {"idle", "done", "failed"}
    /\ observations' = {}
    /\ mPc' = "layers"
    /\ mCalled' = <<1>>
    /\ mAnswers' = <<>>
    /\ mRaw' = <<>>
    /\ UNCHANGED now
    /\ UNCHANGED notMetar

\* the awaited layer.fn() settles: break, next layer, or the loop is over and
\* `if (rawMetars.length === 0) throw`
MetarLayerAnswer ==
    /\ mPc = "layers"
    /\ \E r \in MetarResults(now) :
          LET layer == mCalled[Len(mCalled)]
              raw == RawAfter(mRaw, r)
          IN  /\ mAnswers' = Append(mAnswers, r)
              /\ mRaw' = raw
              /\ IF ~LayerAccepted(r) /\ layer < NumMetarLayers
                 THEN /\ mCalled' = Append(mCalled, layer + 1)
                      /\ mPc' = "layers"
                 ELSE /\ mCalled' = mCalled
                      /\ mPc' = IF Len(raw) = 0 THEN "failed" ELSE "hybrid"
    /\ UNCHANGED <<now, observations>>
    /\ UNCHANGED notMetar

\* the reanalysis answer arrives: the observations are built and stored
MetarBuild ==
    /\ mPc = "hybrid"
    /\ \E era \in HybridResults(now) :
          observations' = UpsertObservations(observations,
                                             BuildObservations(mRaw, era, now))
    /\ mPc' = "done"
    /\ UNCHANGED <<now, mCalled, mAnswers, mRaw>>
    /\ UNCHANGED notMetar

MetarInit ==
    /\ mPc = "idle"
    /\ mCalled = <<>>
    /\ mAnswers = <<>>
    /\ mRaw = <<>>

NextMetar == MetarCall \/ MetarLayerAnswer \/ MetarBuild

\* ------------------------------------------------- daily rollups (server)
DAY == 24 * HOUR

ALL_BUCKETS == <<"24h", "48h", "72h", "5day", "7day", "10day">>

\* server constants: [minHour, maxHour] of each bucket
LEAD_TIME_BUCKETS ==
    ("24h" :> <<0, 24>>) @@ ("48h" :> <<24, 48>>) @@ ("72h" :> <<48, 72>>) @@
    ("5day" :> <<96, 120>>) @@ ("7day" :> <<144, 168>>) @@ ("10day" :> <<216, 240>>)

\* client constants
ClientLeadTimeBuckets ==
    ("24h" :> <<-24, 24>>) @@ ("48h" :> <<47, 49>>) @@ ("72h" :> <<71, 73>>) @@
    ("5day" :> <<119, 121>>) @@ ("7day" :> <<167, 169>>) @@ ("10day" :> <<239, 241>>)

\* `lead_time_hours >= ? AND lead_time_hours < ?`
InBucket(lead, range) == lead >= range[1] /\ lead < range[2]

\* one row of leaderboard_daily_stats for a group of verifications
DailyRow(dateStr, bucket, group) ==
    LET v == CHOOSE x \in group : TRUE
    IN  [date |-> dateStr,
         model_id |-> v.model_id,
         variable |-> v.variable,
         lead_time_bucket |-> bucket,
         mae_sum |-> SumValues(group, "absolute_error"),
         mse_sum |-> SumValues(group, "squared_error"),
         bias_sum |-> SumValues(group, "bias"),
         count |-> Cardinality(group)]

\* aggregateDailyStats: for every bucket the verifications of the day
\* (T00:00:00Z to T23:59:59Z), grouped by model and variable
aggregateDailyStats(table, dateStr) ==
    LET startTs == dateStr * DAY
        endTs == dateStr * DAY + DAY - 1
        inDay == {v \in table : v.valid_time >= startTs /\ v.valid_time <= endTs}
        selected(b) == {v \in inDay : InBucket(v.lead_time_hours, LEAD_TIME_BUCKETS[b])}
        group(b, v) == {w \in selected(b) : w.model_id = v.model_id /\ w.variable = v.variable}
    IN  UNION { {DailyRow(dateStr, ALL_BUCKETS[i], group(ALL_BUCKETS[i], v)) :
                    v \in selected(ALL_BUCKETS[i])} : i \in 1..Len(ALL_BUCKETS) }

\* INSERT OR REPLACE INTO leaderboard_daily_stats
UpsertDailyStats(table, new) ==
    LET key(r) == <<r.date, r.model_id, r.variable, r.lead_time_bucket>>
        replaced == {key(n) : n \in new}
    IN  {r \in table : key(r) \notin replaced} \cup new

\* a verification as the server's verifier writes it, `lead` hours ahead
Verified(modelId, validTime, lead, name, fcstVal, obsVal) ==
    VerificationRecord(Forecast(modelId, validTime - lead * HOUR, validTime, fcstVal, NULL),
                       name, fcstVal, obsVal, fcstVal - obsVal, fcstVal - obsVal)

\* the verifications the rollup may find: errors of 1 and 3 degrees for two
\* models, a lead no bucket holds, a second day, a second variable, and two
\* variables the composite scores leave out
StatsPool ==
    LET h == CurrentHour(Now0) IN
    [gfsT |-> Verified("gfs", h, 12, "temperature_2m", 3, 2),
     ecmwfT |-> Verified("ecmwf", h, 12, "temperature_2m", 5, 2),
     gfs80 |-> Verified("gfs", h, 80, "temperature_2m", 6, 2),
     gfsDay |-> Verified("gfs", h - DAY, 12, "temperature_2m", 4, 4),
     gfsWind |-> Verified("gfs", h, 12, "wind_speed_10m", 15, 10),
     ecmwfVis |-> Verified("ecmwf", h, 12, "visibility", 9000, 9500),
     gemPres |-> Verified("gem", h, 12, "pressure_msl", 1012, 1010)]

StatsTables ==
    LET p == StatsPool IN
    { {},
      {p.gfsT, p.ecmwfT},
      {p.gfsT, p.ecmwfT, p.gfsWind},
      {p.gfsT, p.gfsDay, p.gfs80},
      {p.gfsT, p.ecmwfVis},
      {p.gfsT, p.ecmwfVis, p.gemPres},
      {p.gfsT, p.ecmwfT, p.gfsWind, p.ecmwfVis, p.gemPres} }

StatsDates == {CurrentHour(Now0) \div DAY - 1, CurrentHour(Now0) \div DAY}

\* aggregateDailyStats(dateStr), every bucket
AggregateDailyStats ==
    \E dateStr \in StatsDates :
        /\ dailyStats' = UpsertDailyStats(dailyStats, aggregateDailyStats(verifications, dateStr))
        /\ aggregated' = aggregated \cup {dateStr}
        /\ UNCHANGED <<leaderboardCache, lbCalls, clientScores, dbScores>>
        /\ UNCHANGED notStats

\* ------------------------------------------------- leaderboard (server)
\* numbers with a fraction are kept in thousandths
SCALE == 1000

\* a / b of two numbers; 0 / 0 is NaN, and so is every result from a NaN
Div(a, b) == IF a = NaN \/ b = NaN \/ b = 0 THEN NaN ELSE a \div b

\* x in thousandths
Scaled(x) == IF x = NaN THEN NaN ELSE x * SCALE

Plus(a, b) == IF a = NaN \/ b = NaN THEN NaN ELSE a + b

\* MODELS, then the two synthetic ids: the insertion order of modelStats
ModelOrder == <<"ecmwf", "gfs", "gem", "average_of_models", "median_of_models">>

\* server constants, in thousandths
MIN_MAE_THRESHOLDS ==
    ("temperature_2m" :> 1000) @@ ("pressure_msl" :> 1000) @@ ("wind_speed_10m" :> 2500) @@
    ("wind_direction_10m" :> 20000) @@ ("visibility" :> 2000000) @@ ("default" :> 1000)

\* MIN_MAE_THRESHOLDS[variable] || MIN_MAE_THRESHOLDS['default']
Threshold(table, variable) ==
    IF variable \in DOMAIN table /\ table[variable] # 0 THEN table[variable]
    ELSE table["default"]

\* SELECT ... SUM(mae_sum) / SUM(count) ... FROM leaderboard_daily_stats
\* WHERE lead_time_bucket = ? [AND variable = ?] GROUP BY model_id, variable
StatsRows(stats, bucket, variable) ==
    LET selected == {r \in stats :
                        /\ r.lead_time_bucket = bucket
                        /\ (variable # "overall_score" => r.variable = variable)}
        group(r) == {q \in selected : q.model_id = r.model_id /\ q.variable = r.variable}
        n(r) == SumValues(group(r), "count")
    IN  { [model_id |-> r.model_id,
           variable |-> r.variable,
           mae |-> Div(SumValues(group(r), "mae_sum") * SCALE, n(r)),
           mse |-> Div(SumValues(group(r), "mse_sum") * SCALE, n(r)),
           bias |-> Div(SumValues(group(r), "bias_sum") * SCALE, n(r)),
           n |-> n(r)] : r \in selected }

\* the rows of one model that enter its sums: visibility is skipped for
\* overall_score
CountedRows(statsRows, modelId, variable) ==
    {r \in statsRows : /\ r.model_id = modelId
                       /\ ~(variable = "overall_score" /\ r.variable = "visibility")}

\* faulty variant: a model is listed whatever its count
ListedAlways(count) == TRUE

\* `if (count > 0)`
Listed(count) == count > 0

\* row.mae / threshold
NormalizedMae(row) == Div(Scaled(row.mae), Threshold(MIN_MAE_THRESHOLDS, row.variable))

\* the sum of value(x) over the rows x of S
SumOver(S, value(_)) ==
    IF \E x \in S : value(x) = NaN THEN NaN
    ELSE SumValues({[of |-> x, value |-> value(x)] : x \in S}, "value")

MaxOf(S) == IF S = {} THEN 0 ELSE CHOOSE x \in S : \A y \in S : y <= x

\* leaderboard.sort((a, b) => a.avg_mae - b.avg_mae): stable, so equal
\* scores keep the order of `order`
RECURSIVE SortByMae(_, _)
SortByMae(rows, order) ==
    IF rows = {} THEN <<>>
    ELSE LET pos(r) == CHOOSE i \in 1..Len(order) : order[i] = r.model
             first == CHOOSE r \in rows :
                         \A q \in rows : r.avg_mae < q.avg_mae
                                          \/ (r.avg_mae = q.avg_mae /\ pos(r) <= pos(q))
         IN  <<first>> \o SortByMae(rows \ {first}, order)

\* calculateLeaderboardFast(bucket, variable)
calculateLeaderboardFast(stats, bucket, variable) ==
    LET statsRows == StatsRows(stats, bucket, variable)
        rows(m) == CountedRows(statsRows, m, variable)
        count(m) == Cardinality(rows(m))
        absBias(r) == Abs(r.bias)
        mseOf(r) == r.mse
        avgMse(m) == Div(SumOver(rows(m), mseOf), count(m))
        leaderboard ==
            { [model |-> ModelOrder[i],
               avg_mae |-> Div(SumOver(rows(ModelOrder[i]), NormalizedMae), count(ModelOrder[i])),
               avg_rmse |-> IF avgMse(ModelOrder[i]) = NaN THEN NaN
                            ELSE Sqrt(Scaled(avgMse(ModelOrder[i]))),
               avg_mse |-> avgMse(ModelOrder[i]),
               avg_bias |-> Div(SumOver(rows(ModelOrder[i]), absBias), count(ModelOrder[i])),
               total_verifications |-> MaxOf({r.n : r \in rows(ModelOrder[i])})] :
              i \in {j \in 1..Len(ModelOrder) : Listed(count(ModelOrder[j]))} }
    IN  SortByMae(leaderboard, ModelOrder)

\* JSON.stringify writes NaN as null; JSON.parse gives the rest back as it was
Stringify(rows) ==
    LET text(x) == IF x = NaN THEN NULL ELSE x
    IN  [i \in 1..Len(rows) |->
            [model |-> rows[i].model,
             avg_mae |-> text(rows[i].avg_mae),
             avg_rmse |-> text(rows[i].avg_rmse),
             avg_mse |-> text(rows[i].avg_mse),
             avg_bias |-> text(rows[i].avg_bias),
             total_verifications |-> text(rows[i].total_verifications)]]

\* INSERT OR REPLACE INTO leaderboard_cache, keyed by (bucket, variable)
UpsertCache(cache, bucket, variable, data) ==
    {c \in cache : ~(c.bucket = bucket /\ c.variable = variable)}
        \cup {[bucket |-> bucket, variable |-> variable, data |-> Stringify(data)]}

\* faulty variant: a miss computes but does not store
CacheAfterMissUnstored(cache, bucket, variable, data) == cache

\* getLeaderboard on a miss: `INSERT OR REPLACE INTO leaderboard_cache`
CacheAfterMiss(cache, bucket, variable, data) == UpsertCache(cache, bucket, variable, data)

\* the (bucket, variable) pairs that are asked for
LeaderboardArgs ==
    {<<"24h", "overall_score">>, <<"24h", "temperature_2m">>, <<"48h", "overall_score">>}

\* getLeaderboard(bucket, variable): the cached rows, or compute, store, return
GetLeaderboard ==
    /\ Len(lbCalls) < MaxLeaderboardCalls
    /\ \E args \in LeaderboardArgs :
          LET bucket == args[1]
              variable == args[2]
              row == {c \in leaderboardCache : c.bucket = bucket /\ c.variable = variable}
              data == calculateLeaderboardFast(dailyStats, bucket, variable)
          IN  IF row # {}
              THEN /\ lbCalls' = Append(lbCalls,
                        [kind |-> "get", bucket |-> bucket, variable |-> variable,
                         computed |-> FALSE, stats |-> {},
                         rows |-> (CHOOSE c \in row : TRUE).data])
                   /\ UNCHANGED leaderboardCache
              ELSE /\ leaderboardCache' = CacheAfterMiss(leaderboardCache, bucket, variable, data)
                   /\ lbCalls' = Append(lbCalls,
                        [kind |-> "get", bucket |-> bucket, variable |-> variable,
                         computed |-> TRUE, stats |-> StatsRows(dailyStats, bucket, variable),
                         rows |-> data])
    /\ UNCHANGED <<dailyStats, aggregated, clientScores, dbScores>>
    /\ UNCHANGED notStats

\* the variables refreshLeaderboardCache goes through, as far as the rows of
\* the model have them
CacheVariables == <<"overall_score", "temperature_2m">>

RECURSIVE RefreshFrom(_, _, _)
RefreshFrom(cache, stats, k) ==
    IF k > Len(ALL_BUCKETS) * Len(CacheVariables) THEN cache
    ELSE LET bucket == ALL_BUCKETS[((k - 1) \div Len(CacheVariables)) + 1]
             variable == CacheVariables[((k - 1) % Len(CacheVariables)) + 1]
         IN  RefreshFrom(UpsertCache(cache, bucket, variable,
                                     calculateLeaderboardFast(stats, bucket, variable)),
                         stats, k + 1)

\* refreshLeaderboardCache: every bucket and variable is computed and stored
RefreshLeaderboardCache ==
    /\ Len(lbCalls) < MaxLeaderboardCalls
    /\ leaderboardCache' = RefreshFrom(leaderboardCache, dailyStats, 1)
    /\ lbCalls' = Append(lbCalls, [kind |-> "refresh", bucket |-> "", variable |-> "",
                                   computed |-> TRUE, stats |-> {}, rows |-> <<>>])
    /\ UNCHANGED <<dailyStats, aggregated, clientScores, dbScores>>
    /\ UNCHANGED notStats

\* ------------------------------------------- the end of runUpdateCycle
\* cycles that reach their end in one behaviour
MaxTailRuns == 1

\* one loop iteration of aggregateDailyStats(dateStr): the rows of one bucket
aggregateBucket(table, dateStr, bucket) ==
    {r \in aggregateDailyStats(table, dateStr) : r.lead_time_bucket = bucket}

\* one loop iteration of refreshLeaderboardCache: `insert.run(bucket, variable, ...)`
RefreshStep(cache, stats, k) ==
    LET bucket == ALL_BUCKETS[((k - 1) \div Len(CacheVariables)) + 1]
        variable == CacheVariables[((k - 1) % Len(CacheVariables)) + 1]
    IN  UpsertCache(cache, bucket, variable, calculateLeaderboardFast(stats, bucket, variable))

TailTask(kind, dateStr, k) == [kind |-> kind, date |-> dateStr, k |-> k]

\* the loop iterations a task runs
TailLength(t) ==
    IF t.kind = "aggregate" THEN Len(ALL_BUCKETS) ELSE Len(ALL_BUCKETS) * Len(CacheVariables)

\* index.ts 133-145: aggregateDailyStats(yesterday), aggregateDailyStats(today)
\* and refreshLeaderboardCache() are called without await: each runs to its
\* first `await new Promise(resolve => setImmediate(resolve))`, then the cycle
\* logs `Cycle complete` and the finally block releases the guard
TailStart ==
    /\ Len(tailEnds) < MaxTailRuns
    /\ LET today == CurrentHour(Now0) \div DAY IN
       tailQueue' = tailQueue \o << TailTask("aggregate", today - 1, 1),
                                     TailTask("aggregate", today, 1),
                                     TailTask("refresh", today, 1) >>
    /\ tailEnds' = Append(tailEnds, [cache |-> leaderboardCache, rollups |-> dailyStats])
    /\ UNCHANGED statsVars
    /\ UNCHANGED notTail

\* the oldest setImmediate callback runs: its task does one loop iteration
\* and awaits setImmediate again unless its loop is over
TailImmediate ==
    /\ tailQueue # <<>>
    /\ LET t == Head(tailQueue) IN
       /\ IF t.kind = "aggregate"
          THEN /\ dailyStats' = UpsertDailyStats(dailyStats,
                                    aggregateBucket(verifications, t.date, ALL_BUCKETS[t.k]))
               /\ aggregated' = IF t.k = Len(ALL_BUCKETS)
                                THEN aggregated \cup {t.date} ELSE aggregated
               /\ UNCHANGED leaderboardCache
          ELSE /\ leaderboardCache' = RefreshStep(leaderboardCache, dailyStats, t.k)
               /\ UNCHANGED <<dailyStats, aggregated>>
       /\ tailQueue' = IF t.k < TailLength(t)
                       THEN Append(Tail(tailQueue), [t EXCEPT !.k = @ + 1])
                       ELSE Tail(tailQueue)
    /\ UNCHANGED <<tailEnds, lbCalls, clientScores, dbScores>>
    /\ UNCHANGED notTail

TailInit ==
    /\ tailQueue = <<>>
    /\ tailEnds = <<>>

NextTail ==
    \/ TailStart
    \/ TailImmediate
    \/ GetLeaderboard

\* ------------------------------------------------- composite score (client)
\* client constants, in thousandths
ClientThresholds ==
    ("temperature_2m" :> 500) @@ ("wind_speed_10m" :> 1000) @@ ("wind_direction_10m" :> 15000) @@
    ("visibility" :> 1000) @@ ("precip_probability" :> 50) @@ ("default" :> 100)

\* the names of the client's VERIFICATION_VARIABLES: pressure_msl is not one
ClientVerificationNames ==
    {"temperature_2m", "wind_speed_10m", "wind_direction_10m", "visibility", "wind_vector",
     "precip_probability", "rain_occurrence", "snow_occurrence"}

MISSING_DATA_PENALTY_SCORE == 2500

\* the outlier test: `absolute_error > 2000` unless pressure, occurrence, probability
Outlier(rec) ==
    /\ rec.variable \notin {"pressure_msl", "precip_probability", "rain_occurrence", "snow_occurrence"}
    /\ rec.absolute_error > 2000

\* Object.values(stats).map(...): n and mae of every (model, variable)
VariableStats(records) ==
    LET group(r) == {q \in records : q.model_id = r.model_id /\ q.variable = r.variable}
        absoluteError(q) == q.absolute_error
    IN  { [model_id |-> r.model_id,
           variable |-> r.variable,
           n |-> Cardinality(group(r)),
           mae |-> Div(Scaled(SumOver(group(r), absoluteError)), Cardinality(group(r)))] :
          r \in records }

\* weatherService.ts calculateModelVariableStats: IDBKeyRange.bound(min, max,
\* false, true), rows with a non-finite error and outliers are skipped
calculateModelVariableStats(table, bucket) ==
    VariableStats({rec \in table :
                      /\ InBucket(rec.lead_time_hours, ClientLeadTimeBuckets[bucket])
                      /\ rec.absolute_error # NaN
                      /\ ~Outlier(rec)})

\* db.ts calculateModelVariableStats: IDBKeyRange.bound(min, max), outliers skipped
dbCalculateModelVariableStats(table, bucket) ==
    VariableStats({rec \in table :
                      /\ rec.lead_time_hours >= ClientLeadTimeBuckets[bucket][1]
                      /\ rec.lead_time_hours <= ClientLeadTimeBuckets[bucket][2]
                      /\ ~Outlier(rec)})

\* allStats.filter(s => allowedVars.has(s.variable) && s.variable !== 'pressure_msl')
ValidStats(allStats) ==
    {st \in allStats : st.variable \in ClientVerificationNames /\ st.variable # "pressure_msl"}

\* consensusMae[variable]: the mean MAE of the models that report the variable
ConsensusMae(validStats, variable) ==
    LET statsForVar == {st \in validStats : st.variable = variable}
        maeOf(st) == st.mae
    IN  Div(SumOver(statsForVar, maeOf), Cardinality(statsForVar))

Max2(a, b) == IF a = NaN \/ b = NaN THEN NaN ELSE IF a >= b THEN a ELSE b

\* Math.max(baseline, threshold)
Denominator(validStats, variable) ==
    Max2(ConsensusMae(validStats, variable), Threshold(ClientThresholds, variable))

\* weatherService.ts calculateCompositeStats: the mean of mae / denom over the
\* variables the model has a stat for; NaN scores are filtered out
calculateCompositeStats(allStats) ==
    LET validStats == ValidStats(allStats)
        presentModels == {st.model_id : st \in validStats}
        own(m) == {st \in validStats : st.model_id = m}
        term(st) == Div(Scaled(st.mae), Denominator(validStats, st.variable))
        nOf(st) == st.n
        varCount(m) == Cardinality(own(m))
        score(m) == IF varCount(m) = 0 THEN NaN ELSE Div(SumOver(own(m), term), varCount(m))
    IN  { [model_id |-> m,
           variable |-> "overall_score",
           mae |-> score(m),
           n |-> IF varCount(m) = 0 THEN 0 ELSE SumOver(own(m), nOf) \div varCount(m)] :
          m \in {x \in presentModels : score(x) # NaN} }

\* db.ts calculateCompositeStats: every present variable counts, a variable
\* the model has no stat for adds MISSING_DATA_PENALTY_SCORE
dbCalculateCompositeStats(allStats) ==
    LET validStats == ValidStats(allStats)
        presentVariables == {st.variable : st \in validStats}
        presentModels == {st.model_id : st \in validStats}
        own(m) == {st \in validStats : st.model_id = m}
        term(st) == Div(Scaled(st.mae), Denominator(validStats, st.variable))
        nOf(st) == st.n
        varCount == Cardinality(presentVariables)
        missing(m) == presentVariables \ {st.variable : st \in own(m)}
        sumScore(m) == Plus(SumOver(own(m), term),
                            Cardinality(missing(m)) * MISSING_DATA_PENALTY_SCORE)
    IN  { [model_id |-> m,
           variable |-> "overall_score",
           mae |-> IF varCount > 0 THEN Div(sumScore(m), varCount) ELSE MISSING_DATA_PENALTY_SCORE,
           n |-> IF varCount > 0 THEN SumOver(own(m), nOf) \div varCount ELSE 0] :
          m \in presentModels }

\* the client asks for the composite scores of the first bucket
ClientCompositeStats ==
    /\ clientScores' =
          LET allStats == calculateModelVariableStats(clientVerifications, "24h")
          IN  [called |-> TRUE, stats |-> allStats, scores |-> calculateCompositeStats(allStats)]
    /\ UNCHANGED <<dailyStats, aggregated, leaderboardCache, lbCalls, dbScores>>
    /\ UNCHANGED notStats

DbCompositeStats ==
    /\ dbScores' =
          LET allStats == dbCalculateModelVariableStats(clientVerifications, "24h")
          IN  [called |-> TRUE, stats |-> allStats, scores |-> dbCalculateCompositeStats(allStats)]
    /\ UNCHANGED <<dailyStats, aggregated, leaderboardCache, lbCalls, clientScores>>
    /\ UNCHANGED notStats

\* a client row whose error is not a number: gem's precipitation probability
ClientStatsExtra ==
    LET h == CurrentHour(Now0)
    IN  ClientVariable(Forecast("gem", h - 12 * HOUR, h, 1, NULL),
                       CHOOSE o \in ObservationPool : o.obs_time = h /\ o.weather_codes = {},
                       "precip_probability")

\* ------------------------------------------------------------ backfillStats
\* `SELECT DISTINCT date(datetime(valid_time / 1000, 'unixepoch')) ... ORDER BY day DESC`
RECURSIVE DaysDescending(_)
DaysDescending(days) ==
    IF days = {} THEN <<>>
    ELSE LET latest == CHOOSE x \in days : \A y \in days : y <= x
         IN  <<latest>> \o DaysDescending(days \ {latest})

\* allDays.filter(d => d.day && !existingDays.has(d.day))
MissingDays(table, stats) ==
    DaysDescending({v.valid_time \div DAY : v \in table} \ {r.date : r \in stats})

\* backfillStats is called: the two SELECTs, `if (missingDays.length === 0)
\* return`, else the loop runs to `await aggregateDailyStats(day)`
BackfillStart ==
    /\ bPc = "idle"
    /\ bExisting' = {r.date : r \in dailyStats}
    /\ bMissing' = MissingDays(verifications, dailyStats)
    /\ bPc' = IF MissingDays(verifications, dailyStats) = <<>> THEN "done" ELSE "day"
    /\ UNCHANGED <<bProcessed, bFailed, statsVars>>
    /\ UNCHANGED notBackfill

\* aggregateDailyStats(day) resolves; then `await setTimeout(resolve, 500)`
BackfillDay ==
    /\ bPc = "day"
    /\ dailyStats' = UpsertDailyStats(dailyStats,
                                      aggregateDailyStats(verifications, Head(bMissing)))
    /\ aggregated' = aggregated \cup {Head(bMissing)}
    /\ bProcessed' = Append(bProcessed, Head(bMissing))
    /\ bPc' = "pause"
    /\ UNCHANGED <<bMissing, bExisting, bFailed>>
    /\ UNCHANGED <<leaderboardCache, lbCalls, clientScores, dbScores>>
    /\ UNCHANGED notBackfill

\* aggregateDailyStats(day) rejects after the rows of its first buckets:
\* the catch logs it; then `await setTimeout(resolve, 500)`
BackfillDayFails ==
    /\ bPc = "day"
    /\ \E k \in 0..1 :
          dailyStats' = UpsertDailyStats(dailyStats,
              UNION {aggregateBucket(verifications, Head(bMissing), ALL_BUCKETS[i]) : i \in 1..k})
    /\ bProcessed' = Append(bProcessed, Head(bMissing))
    /\ bFailed' = bFailed \cup {Head(bMissing)}
    /\ bPc' = "pause"
    /\ UNCHANGED <<bMissing, bExisting, aggregated>>
    /\ UNCHANGED <<leaderboardCache, lbCalls, clientScores, dbScores>>
    /\ UNCHANGED notBackfill

\* the 500 ms timer fires: the next day, or `Complete.`
BackfillPause ==
    /\ bPc = "pause"
    /\ bMissing' = Tail(bMissing)
    /\ bPc' = IF Tail(bMissing) = <<>> THEN "done" ELSE "day"
    /\ UNCHANGED <<bExisting, bProcessed, bFailed, statsVars>>
    /\ UNCHANGED notBackfill

BackfillInit ==
    /\ bPc = "idle"
    /\ bMissing = <<>>
    /\ bExisting = {}
    /\ bProcessed = <<>>
    /\ bFailed = {}

NextBackfill ==
    \/ BackfillStart
    \/ BackfillDay
    \/ BackfillDayFails
    \/ BackfillPause

\* the tables backfillStats may find: those of the statistics, and one whose
\* earlier day has a single record, with a lead of 80 hours
BackfillTables ==
    LET h == CurrentHour(Now0)
        p == StatsPool
    IN  StatsTables \cup { {p.gfsT, Verified("gfs", h - DAY, 80, "temperature_2m", 6, 2)},
                          {p.gfsT, p.ecmwfT, p.gfsDay,
                           Verified("ecmwf", h - 2 * DAY, 12, "temperature_2m", 3, 2)} }

\* --------------------------------------------------------------- TabContent
\* runs of the effect (changes of bucketName or selectedVariable) in one behaviour
MaxLoads == 3

Loads == 1..MaxLoads

Written(fields, id, current) == {[field |-> f, by |-> id, latest |-> current] : f \in fields}

\* faulty variant of the guard: every load may apply its result
IsLatestAlways(id, current) == TRUE

\* `if (requestId === requestRef.current)`
IsLatest(id, current) == id = current

\* the finally block: `if (requestId === requestRef.current) setIsLoading(false)`
Finally(id, written) ==
    /\ isLoading' = IF IsLatest(id, requestRef) THEN FALSE ELSE isLoading
    /\ tabWrites' = tabWrites \cup written
                        \cup (IF IsLatest(id, requestRef)
                              THEN Written({"isLoading"}, id, requestRef) ELSE {})
    /\ loadPc' = [loadPc EXCEPT ![id] = "done"]

\* the effect runs: `++requestRef.current`, then fetchData() up to its first
\* await: setIsLoading(true), setError(null), setEta(null)
TabChange ==
    /\ requestRef < MaxLoads
    /\ requestRef' = requestRef + 1
    /\ isLoading' = TRUE
    /\ tabError' = NULL
    /\ eta' = NULL
    /\ loadPc' = [loadPc EXCEPT ![requestRef + 1] = "leaderboard"]
    /\ tabWrites' = tabWrites \cup
                        Written({"isLoading", "error", "eta"}, requestRef + 1, requestRef + 1)
    /\ UNCHANGED <<loadRows, leaderboardData, chartData>>
    /\ UNCHANGED notTab

\* getLeaderboardDataForBucket resolves, with rows or with none
LoadLeaderboard(id) ==
    /\ loadPc[id] = "leaderboard"
    /\ \E rows \in {"rows", "empty"} : loadRows' = [loadRows EXCEPT ![id] = rows]
    /\ loadPc' = [loadPc EXCEPT ![id] = "stats"]
    /\ UNCHANGED <<requestRef, leaderboardData, chartData, eta, tabError, isLoading, tabWrites>>

\* an awaited call rejects: the catch block sets the error if the load is the
\* latest, then the finally block
LoadThrows(id) ==
    /\ loadPc[id] \in {"leaderboard", "stats", "earliest"}
    /\ tabError' = IF IsLatest(id, requestRef) THEN id ELSE tabError
    /\ Finally(id, IF IsLatest(id, requestRef) THEN Written({"error"}, id, requestRef) ELSE {})
    /\ UNCHANGED <<requestRef, loadRows, leaderboardData, chartData, eta>>

\* the chart statistics resolve: the result is applied if the load is the
\* latest; with an empty leaderboard `await getEarliestIssueTime()` follows
LoadStats(id) ==
    /\ loadPc[id] = "stats"
    /\ IF IsLatest(id, requestRef)
       THEN /\ leaderboardData' = [by |-> id, rows |-> loadRows[id]]
            /\ chartData' = [by |-> id]
            /\ IF loadRows[id] = "empty"
               THEN /\ loadPc' = [loadPc EXCEPT ![id] = "earliest"]
                    /\ tabWrites' = tabWrites \cup
                                        Written({"leaderboardData", "chartData"}, id, requestRef)
                    /\ UNCHANGED isLoading
               ELSE Finally(id, Written({"leaderboardData", "chartData"}, id, requestRef))
       ELSE /\ UNCHANGED <<leaderboardData, chartData>>
            /\ Finally(id, {})
    /\ UNCHANGED <<requestRef, loadRows, eta, tabError>>

\* getEarliestIssueTime resolves: `if (earliestIssue) setEta(...)`, with the
\* minHours of the load's own bucket, then the finally block
LoadEarliest(id) ==
    /\ loadPc[id] = "earliest"
    /\ \E earliestIssue \in {NULL, Now0} :
          IF earliestIssue # NULL
          THEN /\ eta' = [by |-> id]
               /\ Finally(id, Written({"eta"}, id, requestRef))
          ELSE /\ UNCHANGED eta
               /\ Finally(id, {})
    /\ UNCHANGED <<requestRef, loadRows, leaderboardData, chartData, tabError>>

LoadLeaderboardAny == (\E id \in Loads : LoadLeaderboard(id)) /\ UNCHANGED notTab
LoadThrowsAny == (\E id \in Loads : LoadThrows(id)) /\ UNCHANGED notTab
LoadStatsAny == (\E id \in Loads : LoadStats(id)) /\ UNCHANGED notTab
LoadEarliestAny == (\E id \in Loads : LoadEarliest(id)) /\ UNCHANGED notTab

TabInit ==
    /\ requestRef = 0
    /\ loadPc = [id \in Loads |-> "none"]
    /\ loadRows = [id \in Loads |-> "none"]
    /\ leaderboardData = NULL
    /\ chartData = NULL
    /\ eta = NULL
    /\ tabError = NULL
    /\ isLoading = TRUE
    /\ tabWrites = {}

NextTab ==
    \/ TabChange
    \/ LoadLeaderboardAny
    \/ LoadThrowsAny
    \/ LoadStatsAny
    \/ LoadEarliestAny

\* ------------------------------------------------------- POST /api/reset
\* resets in one behaviour
MaxResets == 1

\* faulty variant: the reset also clears the cache
CacheAfterResetCleared(cache) == {}

\* index.ts 105-108 delete from forecasts, observations, verifications and
\* metadata: no statement names leaderboard_cache
CacheAfterReset(cache) == cache

\* index.ts 102-114: four DELETE statements; metadata holds last_forecast_fetch
\* and the model_unavailable_<id> rows
Reset ==
    /\ Len(resetLog) < MaxResets
    /\ forecasts' = {}
    /\ observations' = {}
    /\ verifications' = {}
    /\ unavailable' = {}
    /\ lastForecastFetch' = NULL
    /\ leaderboardCache' = CacheAfterReset(leaderboardCache)
    /\ aggregated' = {}
    /\ resetLog' = Append(resetLog, [cache |-> leaderboardCache, rollups |-> dailyStats,
                                     calls |-> Len(lbCalls)])
    /\ UNCHANGED <<dailyStats, lbCalls, clientScores, dbScores>>
    /\ UNCHANGED <<now, cycleLocals, retryVars, clientObservations, metarVars, tailVars,
                   backfillVars, tabVars, clientVars>>
    /\ UNCHANGED <<sPc, sAnchor, sFetched, sRuns, clientVerifications, vRuns, vClientRuns>>
    /\ UNCHANGED <<fPc, fCall, fBatch, fProcessed, chainPc, requested, answered,
                   storedFrom, syntheticRuns, verifiedCalls>>

\* what the verifier of a cycle after a reset may write: one model only, or
\* two models and two days
TablesAfterReset ==
    LET p == StatsPool IN { {p.gfsT}, {p.ecmwfT, p.gfsT, p.gfsDay} }

\* a cycle after a reset has fetched and verified again: the tables hold what
\* its reconcile, model fetch and runVerification wrote
VerifyAfterReset ==
    /\ resetLog # <<>>
    /\ verifications = {}
    /\ verifications' \in TablesAfterReset
    /\ aggregated' = {}
    /\ forecasts' = ForecastPool
    /\ observations' = {o \in ObservationPool : o.weather_codes = {}}
    /\ lastForecastFetch' = Now0
    /\ vRuns' = vRuns + 1
    /\ UNCHANGED <<dailyStats, leaderboardCache, lbCalls, clientScores, dbScores>>
    /\ UNCHANGED <<tailVars, resetVars, backfillVars, tabVars, clientVars>>
    /\ UNCHANGED <<now, cycleLocals, retryVars, clientObservations, metarVars>>
    /\ UNCHANGED <<sPc, sAnchor, sFetched, sRuns, clientVerifications, vClientRuns>>
    /\ UNCHANGED <<fPc, fCall, fBatch, fProcessed, chainPc, requested, answered,
                   storedFrom, unavailable, syntheticRuns, verifiedCalls>>

ResetInit == resetLog = <<>>

StatsInit ==
    /\ dailyStats = {}
    /\ aggregated = {}
    /\ leaderboardCache = {}
    /\ lbCalls = <<>>
    /\ clientScores = [called |-> FALSE, stats |-> {}, scores |-> {}]
    /\ dbScores = [called |-> FALSE, stats |-> {}, scores |-> {}]

NextStats ==
    \/ AggregateDailyStats
    \/ GetLeaderboard
    \/ RefreshLeaderboardCache
    \/ ClientCompositeStats
    \/ DbCompositeStats
    \/ Reset
    \/ VerifyAfterReset

\* ------------------------------------------------ the stored form of a record

\* JSON.stringify of a number field: NaN is written as null, a number and null as they are
JsonValue(x) == IF x = NaN THEN NULL ELSE x

\* data: JSON.stringify(record), read back with JSON.parse(r.data); numbers are
\* the fields that hold a number or null
JsonRoundTrip(rec, numbers) ==
    [k \in DOMAIN rec |-> IF k \in numbers THEN JsonValue(rec[k]) ELSE rec[k]]

\* the number fields of an Observation and of a Forecast
ObservationNumbers == {"obs_time", "station_reports", "temperature", "wind_dir", "era_precip_amt"}
ForecastNumbers ==
    {"issue_time", "valid_time", "temperature_2m", "wind_speed_10m", "wind_direction_10m",
     "rain", "snowfall", "weather_code", "precipitation_probability"}

\* percentage_error of a pushed record, in thousandths of a percent:
\* pctError = obsVal !== 0 ? (absError / Math.abs(obsVal)) * 100 : null for a
\* continuous variable, null for direction, probability and occurrence
percentage_error(v) ==
    IF v.variable \in {"wind_direction_10m", "precipitation_probability",
                       "rain_occurrence", "snow_occurrence"}
    THEN NULL
    ELSE IF v.observed_value = 0 THEN NULL
         ELSE (v.absolute_error * 100 * SCALE) \div Abs(v.observed_value)

\* the record verifications.push({...}) builds: the twelve values and percentage_error
PushedVerification(v) == v @@ [percentage_error |-> percentage_error(v)]

\* CREATE TABLE verifications / INSERT OR REPLACE INTO verifications (...)
VerificationColumns ==
    {"key", "model_id", "variable", "valid_time", "issue_time", "lead_time_hours",
     "forecast_value", "observed_value", "error", "absolute_error", "squared_error", "bias"}

\* insert.run(v) binds the named parameters of the statement; the row read back
\* has the columns of the table
StoredVerification(rec) == [c \in VerificationColumns |-> rec[c]]

\* ------------------------------------------- failures and the client's cycle
\* an awaited step of the cycle throws: runUpdateCycle's catch logs the error
\* and its finally block sets isUpdating = false
StepFails(c) ==
    /\ pc[c] \in {"hybrid", "models", "synthetic", "verify1", "verify2"}
    /\ pc' = [pc EXCEPT ![c] = "idle"]
    /\ metarLayer' = [metarLayer EXCEPT ![c] = 0]
    /\ rawMetars' = [rawMetars EXCEPT ![c] = <<>>]
    /\ isUpdating' = FALSE
    /\ outcome' = "failed"
    /\ UNCHANGED <<now, cycleStart, tried, done, skipped, observations, immediateQueue>>

StepFailsAny == (\E c \in Calls : StepFails(c)) /\ UNCHANGED notCycle

\* faulty variant: the error leaves runFullUpdate with isRunning.current still true
ClientFailsStuck ==
    /\ clientPc # "idle"
    /\ clientPc' = "idle"
    /\ clientStatus' = "Error"
    /\ UNCHANGED isRunning
    /\ UNCHANGED notClient

\* an awaited call of runFullUpdate throws: catch sets status 'Error', finally
\* sets isRunning.current = false
ClientFails ==
    /\ clientPc # "idle"
    /\ clientPc' = "idle"
    /\ clientStatus' = "Error"
    /\ isRunning' = FALSE
    /\ UNCHANGED notClient

\* runFullUpdate is called: `if (isRunning.current) return`, else
\* isRunning.current = true and await db.openDB()
ClientTrigger ==
    /\ clientPc = "idle"
    /\ ~isRunning
    /\ isRunning' = TRUE
    /\ clientPc' = "openDB"
    /\ UNCHANGED clientStatus
    /\ UNCHANGED notClient

\* the last run ended less than 5 minutes ago and the call is not forced:
\* status 'Cached', isRunning.current = false, return
ClientCached ==
    /\ clientPc = "lastRun"
    /\ clientStatus' = "Cached"
    /\ isRunning' = FALSE
    /\ clientPc' = "idle"
    /\ UNCHANGED notClient

\* the awaited call resolves and runFullUpdate goes on to its next await;
\* stale: forceForecastFetch || !lastFetch || lastFetch < oneHourAgo
ClientAdvance ==
    /\ clientPc \notin {"idle", "save"}
    /\ \E stale \in BOOLEAN :
          /\ clientPc' =
                CASE clientPc = "openDB" -> "lastRun"
                  [] clientPc = "lastRun" -> "lastFetch"
                  [] clientPc = "lastFetch" -> IF stale THEN "models" ELSE "metar"
                  [] clientPc = "models" -> "metar"
                  [] clientPc = "metar" -> "verify"
                  [] clientPc = "verify" -> "count"
                  [] clientPc = "count" -> "cleanup"
                  [] clientPc = "cleanup" -> "save"
          /\ clientStatus' =
                CASE clientPc = "lastFetch" ->
                        IF stale THEN "Fetching models..." ELSE "Fetching observations..."
                  [] clientPc = "models" -> "Fetching observations..."
                  [] clientPc = "metar" -> "Running verification..."
                  [] clientPc = "count" -> "Cleaning up old data..."
                  [] OTHER -> clientStatus
    /\ UNCHANGED isRunning
    /\ UNCHANGED notClient

\* db.setMetadata('last_run_end', now) resolves: status 'Idle', and finally
\* sets isRunning.current = false
ClientDone ==
    /\ clientPc = "save"
    /\ clientStatus' = "Idle"
    /\ isRunning' = FALSE
    /\ clientPc' = "idle"
    /\ UNCHANGED notClient

ClientInit ==
    /\ isRunning = FALSE
    /\ clientPc = "idle"
    /\ clientStatus = "Initializing..."

Init == CycleInit /\ RetryInit /\ FetchInit /\ ObsInit /\ StoreInit /\ VerifyInit /\ MetarInit /\ StatsInit /\ TailInit /\ ResetInit /\ BackfillInit /\ TabInit /\ ClientInit

InitVerify ==
    /\ now = Now0
    /\ CycleLocalsInit
    /\ RetryInit
    /\ FetchInit
    /\ ObsInit
    /\ StoreLocalsInit
    /\ VerifyInputs
    /\ ClientInit
    /\ TabInit
    /\ BackfillInit
    /\ ResetInit
    /\ TailInit
    /\ StatsInit
    /\ MetarInit

\* the statistics start from a verifications table drawn from the pool
InitStats ==
    /\ now = Now0 /\ CycleLocalsInit /\ RetryInit /\ FetchLocalsInit
    /\ ObsInit /\ StoreLocalsInit /\ MetarInit
    /\ StatsInit /\ TailInit /\ ResetInit /\ BackfillInit /\ TabInit /\ ClientInit
    /\ verifications \in StatsTables
    /\ forecasts = (IF verifications = {} THEN {} ELSE ForecastPool)
    /\ observations = (IF verifications = {} THEN {}
                       ELSE {o \in ObservationPool : o.weather_codes = {}})
    /\ unavailable = (IF verifications = {} THEN {} ELSE {NumModels})
    /\ lastForecastFetch = (IF verifications = {} THEN NULL ELSE Now0)
    /\ clientVerifications = (IF verifications = {} THEN {} ELSE verifications \cup ClientStatsExtra)
    /\ vRuns = 0
    /\ vClientRuns = 0

SpecStats == InitStats /\ [][NextStats]_vars

\* backfillStats starts from a verifications table of the catalogue and from
\* rollups that hold nothing or one of its days
InitBackfill ==
    /\ CycleInit /\ RetryInit /\ FetchInit /\ ObsInit /\ StoreInit /\ MetarInit
    /\ TailInit /\ ResetInit /\ BackfillInit /\ TabInit /\ ClientInit
    /\ verifications \in BackfillTables
    /\ clientVerifications = {}
    /\ vRuns = 0
    /\ vClientRuns = 0
    /\ \E days \in SUBSET {v.valid_time \div DAY : v \in verifications} :
          /\ Cardinality(days) <= 1
          /\ dailyStats = UNION {aggregateDailyStats(verifications, d) : d \in days}
    /\ aggregated = {}
    /\ leaderboardCache = {}
    /\ lbCalls = <<>>
    /\ clientScores = [called |-> FALSE, stats |-> {}, scores |-> {}]
    /\ dbScores = [called |-> FALSE, stats |-> {}, scores |-> {}]

SpecBackfill == InitBackfill /\ [][NextBackfill]_vars

SpecStore == Init /\ [][NextStore]_vars

SpecVerify == InitVerify /\ [][NextVerify]_vars

SpecObs == Init /\ [][NextObs]_vars

SpecFetch == Init /\ [][NextFetch]_vars

SpecRetry == Init /\ [][NextRetry]_vars

Next ==
    \/ TriggerAny
    \/ MetarAcceptAny
    \/ MetarRejectAny
    \/ MetarCriticalAny
    \/ HybridAny
    \/ AdvanceAny
    \/ RollupAny
    \/ RunImmediate

Spec == Init /\ [][Next]_vars

SpecMetar == Init /\ [][NextMetar]_vars

SpecTail == InitStats /\ [][NextTail]_vars

SpecTab == Init /\ [][NextTab]_vars

\* the server's cycle with its failures and the client's cycle. The two share
\* no variable, and the behaviours take their runs one at a time: a trigger
\* reaches the server when the tasks queued by the cycle before have run and
\* the client is idle, and the client starts a run while the server is at rest.
NextLive ==
    \/ TriggerAny /\ immediateQueue = <<>> /\ clientPc = "idle"
    \/ MetarAcceptAny
    \/ MetarRejectAny
    \/ MetarCriticalAny
    \/ HybridAny
    \/ AdvanceAny
    \/ RollupAny
    \/ RunImmediate
    \/ StepFailsAny
    \/ ClientTrigger /\ ~isUpdating /\ immediateQueue = <<>>
    \/ ClientAdvance
    \/ ClientCached
    \/ ClientFails
    \/ ClientDone

\* every awaited call settles: a ground-truth layer answers, an awaited step
\* resolves or throws, queued setImmediate callbacks run
Fairness ==
    /\ WF_vars(MetarAcceptAny \/ MetarRejectAny \/ MetarCriticalAny)
    /\ WF_vars(HybridAny \/ AdvanceAny \/ StepFailsAny)
    /\ WF_vars(RollupAny)
    /\ WF_vars(RunImmediate)
    /\ WF_vars(ClientAdvance \/ ClientCached \/ ClientFails \/ ClientDone)

SpecLive == Init /\ [][NextLive]_vars /\ Fairness

\* ------------------------------------------------------------------ claims
Running == {c \in Calls : pc[c] # "idle"}

\* C1: at most one execution of runUpdateCycle is between isUpdating = true
\* and its reset, and a trigger that arrives while isUpdating is true starts
\* no step: no caller leaves idle, and isUpdating, the tables, the step
\* record and the task queue stay as they are.
C1_SingleFlight ==
    /\ [](Cardinality(Running) <= 1 /\ (isUpdating <=> Running # {}))
    /\ [][isUpdating =>
            /\ \A c \in Calls : pc[c] = "idle" => pc'[c] = "idle"
            /\ (skipped' /\ ~skipped) =>
                  UNCHANGED <<isUpdating, pc, metarLayer, rawMetars, tried,
                              done, outcome, observations, immediateQueue>>]_vars

\* a trigger was skipped while another caller's cycle was verifying
C1_Witness ==
    \E c \in Calls : skipped /\ pc[c] = "verify1" /\ isUpdating

IsPrefix(s, t) == Len(s) <= Len(t) /\ \A i \in 1..Len(s) : s[i] = t[i]

RefreshStarted ==
    \E i \in 1..Len(immediateQueue) :
        /\ immediateQueue[i].kind = "refresh"
        /\ immediateQueue[i].left < NumBuckets * NumCacheVariables

RollupPending ==
    \E i \in 1..Len(immediateQueue) :
        immediateQueue[i].kind \in {"aggYesterday", "aggToday"}

\* C2: the major steps of a cycle finish one after the other in the order
\* reconcile, models, synthetic, verify, rollup, cache refresh; the rollups
\* are complete before the cache refresh reads them, and rollups and refresh
\* are complete before the guard is released.
C2_StepsSequential ==
    /\ IsPrefix(done, CycleOrder)
    /\ RefreshStarted => ~RollupPending
    /\ ~isUpdating => immediateQueue = <<>>

AllLayersRejected ==
    Len(tried) = NumMetarLayers /\ \A i \in 1..Len(tried) : ~tried[i]

\* C5: when every ground-truth layer throws, returns nothing or returns fewer
\* than 20 records, the cycle ends as a caught failure: no model fetch,
\* synthetic generation, verification, rollup or cache refresh is done by it,
\* and the guard is released.
C5_CriticalFailureAborts ==
    /\ [](AllLayersRejected =>
            (outcome = "failed" /\ done = <<>> /\ ~isUpdating /\ Running = {}))
    /\ [][(outcome' = "failed" /\ outcome # "failed") =>
            (AllLayersRejected' /\ UNCHANGED <<immediateQueue, observations, done>>)]_vars

\* a cycle has failed after its fifth layer was rejected
C5_Witness == outcome = "failed" /\ AllLayersRejected /\ Running = {}

\* C9: fetchWithRetry makes at most `retries` attempts; an attempt is followed
\* by another only when it ended in status 429, a status >= 500 or a thrown
\* fetch, after a wait of delay * 2^i; any other status is returned at once;
\* a retryable last attempt makes the function throw.
C9_RetryPolicy ==
    LET n == Len(rStatuses)
        retryable(st) == st = 0 \/ st = 429 \/ st >= 500
    IN  /\ n <= rRetries
        /\ \A k \in 1..(n - 1) : retryable(rStatuses[k])
        /\ \A k \in 1..Len(rWaits) : rWaits[k] = rDelay * Pow2(k - 1)
        /\ rPc = "fetching" => (Len(rWaits) = n /\ \A k \in 1..n : retryable(rStatuses[k]))
        /\ rPc = "sleeping" => (Len(rWaits) = n /\ n < rRetries)
        /\ rPc = "returned" =>
              (n > 0 /\ ~retryable(rStatuses[n]) /\ rResult = rStatuses[n]
               /\ Len(rWaits) = n - 1)
        /\ rPc = "thrown" =>
              (n = rRetries /\ (n > 0 => retryable(rStatuses[n]))
               /\ Len(rWaits) = (IF n = 0 THEN 0 ELSE n - 1))

\* a 404 is returned on the third attempt, after waits of delay and 2 * delay
C9_Witness ==
    /\ rPc = "returned" /\ rResult = 404 /\ rRetries = 3
    /\ rStatuses = <<429, 503, 404>> /\ rWaits = <<500, 1000>>

NoneAcceptable(m) == \A i \in 1..Len(answered[m]) : ~answered[m][i]

ChainFailed(m) ==
    chainPc[m] = "done" /\ Len(answered[m]) = NumModelLayers /\ NoneAcceptable(m)

\* C6: a model whose five layers all failed gets its model_unavailable flag and
\* nothing else changes course: no exception leaves fetchAllModels, the other
\* models of the batch are fetched and an acceptable response of theirs is
\* stored, later batches run, and the call goes on to synthetic generation,
\* the last_forecast_fetch update and the caller's verification.
C6_ModelFailureIsolated ==
    /\ fPc # "thrown"
    /\ \A m \in Models : ChainFailed(m) => m \in unavailable
    /\ fPc = "batch" =>
          \A m \in Batch(fBatch) :
             /\ chainPc[m] # "none"
             /\ (chainPc[m] = "done" /\ ~NoneAcceptable(m)) => storedFrom[m] # {}
    /\ fPc \in {"pause", "synthetic"} => fProcessed = Min(fBatch + BATCH_SIZE, NumModels)
    /\ fPc = "returned" =>
          /\ fProcessed = NumModels
          /\ syntheticRuns = fCall
          /\ lastForecastFetch = CurrentHour(now)
    /\ fPc = "idle" => verifiedCalls = fCall

\* model 2 failed in the first batch; model 5 of the second batch has its
\* first layer stored
C6_Witness ==
    /\ fPc = "batch" /\ fBatch = BATCH_SIZE
    /\ 2 \in unavailable /\ 1 \notin unavailable
    /\ chainPc[5] = "done" /\ storedFrom[5] = {1}

C4_ObservationNeedsReport ==
    \A o \in observations \cup clientObservations : o.station_reports >= 1

C3_VerificationIdempotent ==
    /\ [][(vRuns = 1 /\ vRuns' = 2) => verifications' = verifications]_vars
    /\ [](\A v, w \in verifications : v.key = w.key => v = w)

\* both runs are over; the stale row was replaced by a record with an error
C3_Witness ==
    /\ vRuns = 2
    /\ StaleVerification \notin verifications
    /\ \E v \in verifications : v.key = StaleVerification.key /\ v.error # 0
    /\ \E v \in verifications : v.variable = "wind_direction_10m" /\ v.error # 0

WrittenBy(f, o, v) ==
    /\ o.obs_time = f.valid_time
    /\ v.model_id = f.model_id
    /\ v.valid_time = f.valid_time
    /\ v.issue_time = f.issue_time
    /\ v.lead_time_hours * HOUR = f.valid_time - f.issue_time
    /\ v.lead_time_hours >= 0

C11_FirstAcceptedLayerOnly ==
    LET n == Len(mAnswers)
        enough(r) == r.kind = "array" /\ Len(r.records) >= 20
    IN  /\ \A i \in 1..Len(mCalled) : mCalled[i] = i
        /\ Len(mCalled) <= 5
        /\ Len(mCalled) = (IF mPc = "layers" THEN n + 1 ELSE n)
        /\ \A i \in 1..(n - 1) : ~enough(mAnswers[i])
        /\ mPc = "layers" => (mRaw = <<>> /\ \A i \in 1..n : ~enough(mAnswers[i]))
        /\ mPc \in {"hybrid", "done"} => (enough(mAnswers[n]) /\ mRaw = mAnswers[n].records)
        /\ mPc = "failed" => (n = 5 /\ ~enough(mAnswers[n]) /\ observations = {})
        /\ mPc = "done" =>
              \A o \in observations :
                 /\ o.station_reports =
                       Cardinality({k \in 1..Len(mAnswers[n].records) :
                                       /\ mAnswers[n].records[k].exactTime > 0
                                       /\ AlignedHour(mAnswers[n].records[k].exactTime) = o.obs_time})
                 /\ o.station_reports >= 1
        /\ mPc # "done" => observations = {}

\* layer 1 gave 19 reports, layer 2 threw, layer 3 was accepted and used
C11_Witness ==
    /\ mPc = "done" /\ mCalled = <<1, 2, 3>>
    /\ mAnswers[1].kind = "array" /\ Len(mAnswers[1].records) = 19
    /\ mAnswers[2].kind = "throw"
    /\ observations # {}

\* C12: once generateSyntheticModels has run, a synthetic model has a value
\* for a variable in a cell (valid_time, issue_time) exactly when at least two
\* concrete models have a non-null value for that variable in that cell.
\* The code aggregates from a single value as soon as the cell has two rows.
C12_SyntheticNeedsTwoValues ==
    (sPc = "idle" /\ sRuns > 0) =>
        \A vt \in {f.valid_time : f \in forecasts} :
        \A it \in {f.issue_time : f \in forecasts} :
        \A varName \in {"temperature_2m", "wind_speed_10m"} :
            LET cell == {f \in forecasts : f.valid_time = vt /\ f.issue_time = it}
                contributors == {f \in cell :
                                    /\ f.model_id \notin {"average_of_models", "median_of_models"}
                                    /\ f[varName] # NULL}
                synthetic == {f \in cell :
                                    /\ f.model_id \in {"average_of_models", "median_of_models"}
                                    /\ f[varName] # NULL}
            IN  (synthetic # {}) <=> (Cardinality(contributors) >= 2)

\* C13: every verification with an hour-aligned lead time of at least zero is
\* counted by the daily rollup of its day in exactly one lead-time bucket: the
\* counts of its (model, variable) over the six buckets add up to the number
\* of its verifications of that day.  The server's buckets leave the leads
\* 72..95, 120..143 and 168..215 and those from 240 in no bucket.
C13_LeadInExactlyOneBucket ==
    \A d \in aggregated : \A v \in verifications :
        (v.valid_time \div DAY = d /\ v.lead_time_hours >= 0) =>
            LET same == {w \in verifications :
                            /\ w.valid_time \div DAY = d
                            /\ w.model_id = v.model_id
                            /\ w.variable = v.variable}
                rows(b) == {r \in dailyStats :
                               /\ r.date = d /\ r.lead_time_bucket = b
                               /\ r.model_id = v.model_id /\ r.variable = v.variable}
                cnt(b) == IF rows(b) = {} THEN 0 ELSE (CHOOSE r \in rows(b) : TRUE).count
            IN  cnt("24h") + cnt("48h") + cnt("72h") + cnt("5day") + cnt("7day") + cnt("10day")
                    = Cardinality(same)

\* C14: the error of every wind-direction verification is the signed
\* difference forecast - observed brought into (-180, 180], and absolute_error
\* is its magnitude.  The client does so; the server stores the magnitude as
\* the error, so a forecast of 350 against an observed 10 has error 20, not -20.
C14_WindDirectionSigned ==
    \A v \in verifications \cup clientVerifications :
        v.variable = "wind_direction_10m" =>
            /\ v.error > -180 /\ v.error <= 180
            /\ (v.error - (v.forecast_value - v.observed_value)) % 360 = 0
            /\ v.absolute_error = (IF v.error < 0 THEN -v.error ELSE v.error)

\* C15: once a verifier has run, every forecast paired with an observation,
\* both with wind speed and direction, has a wind_vector record whose error,
\* absolute_error and bias are the distance between the two (u, v) vectors and
\* whose squared_error is its square.  The client writes it; the server's loop
\* runs over FORECAST_VARIABLES, which has no wind_vector.
C15_WindVectorRecord ==
    LET paired == {p \in forecasts \X observations :
                      /\ p[1].valid_time = p[2].obs_time
                      /\ p[1].valid_time >= p[1].issue_time
                      /\ p[1].wind_speed_10m # NULL /\ p[1].wind_direction_10m # NULL
                      /\ p[2].wind_speed # NULL /\ p[2].wind_dir # NULL}
        distance(f, o) ==
            LET du == f.wind_speed_10m * Sin1000(f.wind_direction_10m)
                          - o.wind_speed * Sin1000(o.wind_dir)
                dv == f.wind_speed_10m * Cos1000(f.wind_direction_10m)
                          - o.wind_speed * Cos1000(o.wind_dir)
            IN  Sqrt(du * du + dv * dv)
        written(table, f, o) ==
            \E v \in table :
                /\ v.variable = "wind_vector"
                /\ v.model_id = f.model_id
                /\ v.valid_time = f.valid_time /\ v.issue_time = f.issue_time
                /\ v.error = distance(f, o)
                /\ v.absolute_error = v.error /\ v.bias = v.error
                /\ v.squared_error = v.error * v.error
    IN  /\ vClientRuns > 0 => \A p \in paired : written(clientVerifications, p[1], p[2])
        /\ vRuns > 0 => \A p \in paired : written(verifications, p[1], p[2])

\* C16: the observed flag of every precipitation-probability and occurrence
\* record is 1 exactly when the station's phenomenon codes say so (any code for
\* the probability, the matching code for an occurrence), whatever the
\* reanalysis amounts of the observation are.  The client also sets the flag
\* from era_precip_amt, era_rain_amt and era_snow_amt.
C16_ObservedFlagFromCodes ==
    \A v \in verifications \cup clientVerifications :
        v.variable \in {"precip_probability", "precipitation_probability",
                        "rain_occurrence", "snow_occurrence"} =>
            \A o \in observations :
                o.obs_time = v.valid_time =>
                    LET flag == IF v.variable = "rain_occurrence" THEN "RA" \in o.weather_codes
                                ELSE IF v.variable = "snow_occurrence" THEN "SN" \in o.weather_codes
                                ELSE o.weather_codes # {}
                        one == IF v.variable \in {"rain_occurrence", "snow_occurrence"}
                               THEN 1 ELSE 100
                    IN  v.observed_value = (IF flag THEN one ELSE 0)

\* C17: in an overall score, the contribution of a model for a variable is
\* its MAE divided by max(baseline, threshold), the baseline being the mean
\* MAE of the models that report the variable in the bucket.  It is read off
\* the models that report one variable only, whose score is that contribution.
\* The client divides so; the server divides by the threshold alone.
C17_ContributionOverBaseline ==
    LET contribution(stats, thresholds, st) ==
            LET same == {q \in stats : q.variable = st.variable}
                baseline == SumValues(same, "mae") \div Cardinality(same)
                threshold == IF st.variable \in DOMAIN thresholds
                             THEN thresholds[st.variable] ELSE thresholds["default"]
                denom == IF baseline >= threshold THEN baseline ELSE threshold
            IN  (st.mae * 1000) \div denom
        single(stats, st) == Cardinality({q \in stats : q.model_id = st.model_id}) = 1
        scored == {"temperature_2m", "wind_speed_10m"}
    IN  /\ \A i \in 1..Len(lbCalls) :
              (lbCalls[i].kind = "get" /\ lbCalls[i].computed
                    /\ lbCalls[i].variable = "overall_score") =>
                  \A st \in lbCalls[i].stats :
                      (single(lbCalls[i].stats, st) /\ st.variable \in scored) =>
                          \E j \in 1..Len(lbCalls[i].rows) :
                              /\ lbCalls[i].rows[j].model = st.model_id
                              /\ lbCalls[i].rows[j].avg_mae
                                    = contribution(lbCalls[i].stats, MIN_MAE_THRESHOLDS, st)
        /\ clientScores.called =>
              \A st \in clientScores.stats :
                  (single(clientScores.stats, st) /\ st.variable \in scored) =>
                      \E r \in clientScores.scores :
                          /\ r.model_id = st.model_id
                          /\ r.mae = contribution(clientScores.stats, ClientThresholds, st)

\* C18: every row returned for overall_score, by the server's getLeaderboard
\* and by the client's calculateCompositeStats, has a score that is a finite
\* number, and every model in the result has at least one variable that
\* entered its score: a model with none is not listed.
C18_FiniteScoresOnly ==
    /\ \A i \in 1..Len(lbCalls) :
          (lbCalls[i].kind = "get" /\ lbCalls[i].variable = "overall_score") =>
              \A j \in 1..Len(lbCalls[i].rows) :
                  /\ lbCalls[i].rows[j].avg_mae \notin {NaN, NULL}
                  /\ lbCalls[i].rows[j].avg_mae >= 0
                  /\ lbCalls[i].computed =>
                        \E st \in lbCalls[i].stats :
                            /\ st.model_id = lbCalls[i].rows[j].model
                            /\ st.variable # "visibility"
    /\ \A r \in clientScores.scores :
          /\ r.mae \notin {NaN, NULL}
          /\ r.mae >= 0
          /\ \E st \in clientScores.stats :
                /\ st.model_id = r.model_id
                /\ st.variable # "pressure_msl"

\* a computed server board and a client board, both with rows, and each
\* without a model that has records of a variable the score leaves out
C18_Witness ==
    /\ \E i \in 1..Len(lbCalls) :
          /\ lbCalls[i].kind = "get" /\ lbCalls[i].computed
          /\ lbCalls[i].variable = "overall_score"
          /\ Len(lbCalls[i].rows) > 0
          /\ \E st \in lbCalls[i].stats :
                \A j \in 1..Len(lbCalls[i].rows) : lbCalls[i].rows[j].model # st.model_id
    /\ clientScores.called
    /\ clientScores.scores # {}
    /\ \E st \in clientScores.stats :
          \A r \in clientScores.scores : r.model_id # st.model_id

\* C19: the overall score of a model is the mean of its contributions over
\* exactly the variables it has statistics for in the bucket: a variable that
\* only other models report adds no term and no penalty constant, so the score
\* is a function of the statistics of the model's own variables.  The
\* contribution is MAE / max(baseline, threshold) in the client scorers and
\* MAE / threshold in the server's, which leaves visibility out of the score.  calculateCompositeStats of
\* weatherService.ts scores so; the one of db.ts adds 2.5 for every variable
\* the model lacks and divides by the number of variables present.
C19_MeanOverOwnVariables ==
    LET finite(stats, m) ==
            \A st \in stats : st.model_id = m =>
                \A q \in stats : q.variable = st.variable => q.mae # NaN
        clientTerm(stats, st) ==
            LET same == {q \in stats : q.variable = st.variable}
                baseline == SumValues(same, "mae") \div Cardinality(same)
                threshold == IF st.variable \in DOMAIN ClientThresholds
                             THEN ClientThresholds[st.variable] ELSE ClientThresholds["default"]
                denom == IF baseline >= threshold THEN baseline ELSE threshold
            IN  (st.mae * 1000) \div denom
        serverTerm(st) ==
            (st.mae * 1000) \div (IF st.variable \in DOMAIN MIN_MAE_THRESHOLDS
                                  THEN MIN_MAE_THRESHOLDS[st.variable]
                                  ELSE MIN_MAE_THRESHOLDS["default"])
        clientMean(stats, m) ==
            LET own == {st \in stats : st.model_id = m /\ st.variable # "pressure_msl"}
                terms == {[of |-> st, value |-> clientTerm(stats, st)] : st \in own}
            IN  SumValues(terms, "value") \div Cardinality(own)
        serverMean(stats, m) ==
            LET own == {st \in stats : st.model_id = m /\ st.variable # "visibility"}
                terms == {[of |-> st, value |-> serverTerm(st)] : st \in own}
            IN  SumValues(terms, "value") \div Cardinality(own)
    IN  /\ \A r \in clientScores.scores :
              finite(clientScores.stats, r.model_id) =>
                  r.mae = clientMean(clientScores.stats, r.model_id)
        /\ \A r \in dbScores.scores :
              finite(dbScores.stats, r.model_id) =>
                  r.mae = clientMean(dbScores.stats, r.model_id)
        /\ \A i \in 1..Len(lbCalls) :
              (lbCalls[i].kind = "get" /\ lbCalls[i].computed
                    /\ lbCalls[i].variable = "overall_score") =>
                  \A j \in 1..Len(lbCalls[i].rows) :
                      lbCalls[i].rows[j].avg_mae
                          = serverMean(lbCalls[i].stats, lbCalls[i].rows[j].model)

\* C20: a getLeaderboard(bucket, variable) that finds no cache row computes
\* the rows from the daily rollups, stores them under (bucket, variable) and
\* returns them: when it has returned, the cache holds one row for the pair
\* and its data are the returned rows; the next call with the same arguments
\* does not compute and returns the same rows, also when the rollups have
\* changed in between.
C20_MissWritesThrough ==
    /\ \A i \in 1..Len(lbCalls) :
          (lbCalls[i].kind = "get" /\ lbCalls[i].computed) =>
              /\ \A j \in 1..Len(lbCalls[i].rows) :
                    \E st \in lbCalls[i].stats : st.model_id = lbCalls[i].rows[j].model
              /\ i = Len(lbCalls) =>
                    /\ \E c \in leaderboardCache :
                          /\ c.bucket = lbCalls[i].bucket
                          /\ c.variable = lbCalls[i].variable
                          /\ c.data = lbCalls[i].rows
                    /\ \A c, e \in leaderboardCache :
                          (c.bucket = e.bucket /\ c.variable = e.variable) => c = e
              /\ (i < Len(lbCalls) /\ lbCalls[i + 1].kind = "get"
                    /\ lbCalls[i + 1].bucket = lbCalls[i].bucket
                    /\ lbCalls[i + 1].variable = lbCalls[i].variable) =>
                    /\ ~lbCalls[i + 1].computed
                    /\ lbCalls[i + 1].rows = lbCalls[i].rows

\* a miss that returned rows, then the rollups of another day, then the same
\* call, answered from the cache with the rows of the first
C20_Witness ==
    /\ Len(lbCalls) = 2
    /\ lbCalls[1].kind = "get" /\ lbCalls[1].computed
    /\ Len(lbCalls[1].rows) > 0
    /\ lbCalls[2].kind = "get" /\ ~lbCalls[2].computed
    /\ lbCalls[2].bucket = lbCalls[1].bucket
    /\ lbCalls[2].variable = lbCalls[1].variable
    /\ lbCalls[2].rows = lbCalls[1].rows
    /\ StatsRows(dailyStats, lbCalls[1].bucket, lbCalls[1].variable) # lbCalls[1].stats


\* the daily rollups once both aggregations of a cycle's end have run
RollupsAfterAggregation(rollups) ==
    LET today == CurrentHour(Now0) \div DAY
    IN  UpsertDailyStats(UpsertDailyStats(rollups,
                                          aggregateDailyStats(verifications, today - 1)),
                         aggregateDailyStats(verifications, today))

CacheFresh(cache, rollups) ==
    \A c \in cache :
        c.data = Stringify(calculateLeaderboardFast(RollupsAfterAggregation(rollups),
                                                    c.bucket, c.variable))

\* C21: when an update cycle completes, every row of leaderboard_cache has the
\* content that is computed from the daily rollups as they are after the
\* cycle's aggregation: no row, one written by a read miss included, keeps
\* content from before.  The cycle completes with its rollup and cache tasks
\* only started.
C21_CacheFreshAtCycleEnd ==
    \A i \in 1..Len(tailEnds) : CacheFresh(tailEnds[i].cache, tailEnds[i].rollups)


\* C22: when every date that has verification records has been aggregated
\* since those records last changed, then for every bucket, model and variable
\* the sums of absolute error, squared error and bias and the count that the
\* daily accumulators add up to are the sums and the count over the raw
\* verification records of the bucket.
C22_RollupsEqualRawScan ==
    LET rawOf(b, m, x) ==
            {v \in verifications :
                /\ v.model_id = m /\ v.variable = x
                /\ v.lead_time_hours >= LEAD_TIME_BUCKETS[b][1]
                /\ v.lead_time_hours < LEAD_TIME_BUCKETS[b][2]}
        dailyOf(b, m, x) ==
            {r \in dailyStats : r.lead_time_bucket = b /\ r.model_id = m /\ r.variable = x}
        groups == {<<v.model_id, v.variable>> : v \in verifications}
                      \cup {<<r.model_id, r.variable>> : r \in dailyStats}
    IN  (verifications # {}
            /\ \A v \in verifications : (v.valid_time \div DAY) \in aggregated) =>
            \A i \in 1..Len(ALL_BUCKETS) : \A g \in groups :
                LET raw == rawOf(ALL_BUCKETS[i], g[1], g[2])
                    daily == dailyOf(ALL_BUCKETS[i], g[1], g[2])
                IN  /\ SumValues(daily, "mae_sum") = SumValues(raw, "absolute_error")
                    /\ SumValues(daily, "mse_sum") = SumValues(raw, "squared_error")
                    /\ SumValues(daily, "bias_sum") = SumValues(raw, "bias")
                    /\ SumValues(daily, "count") = Cardinality(raw)

C23_BackfillCoversEveryDay ==
    (bPc = "done" /\ bFailed = {}) =>
        \A v \in verifications : \E r \in dailyStats : r.date = v.valid_time \div DAY


\* C24: every update of leaderboardData, chartData, eta, error or isLoading
\* in TabContent is made by the load whose request id is requestRef.current
\* at that moment, and when the latest load has completed isLoading is false.
\* The eta that follows an empty leaderboard is set without the test.
C24_OnlyLatestLoadApplies ==
    /\ \A w \in tabWrites : w.by = w.latest
    /\ (requestRef > 0 /\ loadPc[requestRef] = "done") => ~isLoading


\* C25: an Observation, a Forecast or a VerificationRecord written to the server
\* store and read back has the same fields with the same values and the same
\* nulls, percentage_error of a VerificationRecord included.
C25_StoreRoundTrip ==
    /\ \A o \in observations : JsonRoundTrip(o, ObservationNumbers) = o
    /\ \A f \in forecasts : JsonRoundTrip(f, ForecastNumbers) = f
    /\ vRuns > 0 =>
         \A v \in runVerification(forecasts, observations) :
            \E row \in verifications :
               /\ row.key = v.key
               /\ row = StoredVerification(PushedVerification(v))
               /\ row = PushedVerification(v)


\* the fetch chains that have started and not yet settled
InFlight == {m \in Models : chainPc[m] = "fetching"}

\* C26: during fetchAllModels at most 4 fetch chains are in flight, all of the
\* current batch; the batch loop leaves a batch only when every chain of it has
\* settled, a chain starts only when none is in flight, and synthetic
\* generation starts and ends only after every batch has settled, with no chain
\* in flight.
C26_BatchesOfFour ==
    /\ [](/\ Cardinality(InFlight) <= 4
          /\ InFlight \subseteq Batch(fBatch)
          /\ fPc # "batch" => InFlight = {}
          /\ fPc = "synthetic" => fProcessed = NumModels)
    /\ [][/\ (fPc = "batch" /\ fPc' # "batch") =>
                \A m \in Batch(fBatch) : chainPc[m] = "done"
          /\ (\E m \in Models : chainPc[m] # "fetching" /\ chainPc'[m] = "fetching") =>
                InFlight = {}
          /\ syntheticRuns' # syntheticRuns =>
                InFlight = {} /\ fProcessed = NumModels]_vars

\* a call went through a batch of four chains in flight, a later batch and
\* synthetic generation
C26_Witness ==
    /\ syntheticRuns = 1
    /\ fProcessed = NumModels
    /\ NumModels > BATCH_SIZE
    /\ fPc = "returned"


\* C27: the continuous fields of an Observation are those of one report of
\* its hour's group that no other report of the group is closer to the hour
\* than, and a weather code is in its weather_codes exactly when some report
\* of the group yields that code.
C27_ClosestReportUnionCodes ==
    mPc = "done" =>
       \A o \in observations :
          LET group == {k \in 1..Len(mRaw) : /\ mRaw[k].exactTime > 0
                                             /\ AlignedHour(mRaw[k].exactTime) = o.obs_time}
              dist(k) == Abs(mRaw[k].exactTime - o.obs_time)
          IN  /\ \E k \in group :
                    /\ \A j \in group : dist(k) <= dist(j)
                    /\ o.temperature = mRaw[k].temp
                    /\ o.wind_dir = mRaw[k].wdir
              /\ \A c \in {"RA", "SN", "FZRA", "TS"} :
                    c \in o.weather_codes <=> \E k \in group : c \in mRaw[k].codes
              /\ o.weather_codes \subseteq {"RA", "SN", "FZRA", "TS"}

\* the hour with snow reports at minutes 30 and 40 before it and a rain report
\* 10 minutes after it: both codes, and the temperature of the rain report
C27_Witness ==
    /\ mPc = "done"
    /\ \E o \in observations :
          /\ o.obs_time = CurrentHour(now)
          /\ o.station_reports = 3
          /\ o.weather_codes = {"RA", "SN"}
          /\ o.temperature = 9


\* C28: when every ground-truth source has failed in a cycle and the cycle
\* has ended, every hour that had an Observation in the table when the cycle
\* started still has one.
C28_FailedReconcileKeepsObservations ==
    (~isUpdating /\ outcome = "failed" /\ AllLayersRejected) =>
        \A t \in cycleStart : \E o \in observations : o.obs_time = t


\* C30: a server cycle that has set isUpdating and a client run that has set
\* isRunning.current eventually reset it, whether the steps resolve or throw;
\* a failed cycle ends with the guard released, a released guard leaves every
\* caller idle, and a call finds the guard taken only while a cycle is running.
C30_GuardReleased ==
    /\ isUpdating ~> ~isUpdating
    /\ isRunning ~> ~isRunning
    /\ [](/\ outcome = "failed" => ~isUpdating
          /\ clientStatus = "Error" /\ clientPc = "idle" => ~isRunning
          /\ ~isUpdating => \A c \in Calls : pc[c] = "idle"
          /\ ~isRunning => clientPc = "idle")
    /\ [][(skipped' /\ ~skipped) => isUpdating]_vars

\* the server's cycle has failed after its reconcile and released the guard,
\* and the client has started a new run after a failed one
C30_Witness ==
    /\ outcome = "failed" /\ ~isUpdating /\ done # <<>>
    /\ isRunning /\ clientStatus = "Error" /\ clientPc = "openDB"

====
